---- MODULE Spec2Model ----
(***************************************************************************)
(* A model of the TRMNL plugin provider: the device-synchronized refresh  *)
(* coordinator (PluginLoop.startDeviceSynchronizedLoop and                 *)
(* PluginLoop.waitForDeviceRefresh), the screen publisher                  *)
(* (PluginLoop.refreshScreenForPlugin / refreshAllPlugins), the render     *)
(* contract (BasePlugin.renderToBase64 / drawError) and the plugin         *)
(* registry (PluginLoop.discoverPlugins / start).                          *)
(*                                                                         *)
(* Time is counted in seconds; every duration of the source is a whole     *)
(* number of seconds (60_000 ms, 25_000 ms, 20_000 ms, refresh_rate*1000). *)
(* Each action is one run-to-completion segment of a JavaScript            *)
(* continuation: from one await (or event) to the next.                    *)
(***************************************************************************)
EXTENDS Integers, Sequences, FiniteSets, TLC

VARIABLES
    now,         \* Date.now()
    srv,         \* the device record on the server: refresh_rate, updated_at
    dev,         \* the physical device: nextWake, rate
    proc,        \* the process: "running", "exited", "killed", "crashed"
    running,     \* PluginLoop.running
    main,        \* the frame of startDeviceSynchronizedLoop (and of the waitForDeviceRefresh it awaits)
    wfr,         \* per run of waitForDeviceRefresh: its closure
    callbacks,   \* the interval callbacks in progress
    handlers,    \* the onSigInt executions in progress
    orphans,     \* updateDevice requests still in flight when the process ended
    device,      \* PluginLoop.device (this.device), or NoDevice
    plugins,     \* PluginLoop.plugins (this.plugins)
    boot,        \* start-up: the constructor's promise chain and the frame of start()
    screens,     \* the screens on the server
    playlist,    \* the ids of the screens attached to the device's playlist
    nextId,      \* the id the server gives the next screen
    cycles,      \* the refreshAllPlugins() executions in progress
    coord,       \* where the coordinator stands with respect to the cycles it starts
    render,      \* one renderToBase64() execution, taken alone
    budget,      \* how many disturbances (a delayed call, a call that throws, a SIGINT, a missed wake-up) may still happen
    hist         \* history of what happened, read by the properties only

vars == << now, srv, dev, proc, running, main, wfr, callbacks, handlers, orphans,
          device, plugins, boot, screens, playlist, nextId, cycles, coord, render,
          budget, hist >>

\* The variables of the registry, of the publisher and of a lone render.
bootVars == << device, plugins, boot >>

pubVars == << screens, playlist, nextId, cycles, coord >>

\* The variables of the coordinator's loop and of its device.
loopVars == << now, srv, dev, proc, running, main, wfr, callbacks, handlers, orphans >>

----------------------------------------------------------------------------
\* Program constants, in seconds.

oneMinute == 60

TempRefreshRate == 60

IntervalPeriod == 60

NearRefresh == 20

ExtraSleep == 25

\* The interval-polling loop: the lead of a trigger and the period of its polls.
CHECK_OFFSET == 60

CHECK_INTERVAL == 600

----------------------------------------------------------------------------
\* Bounds of the model.

\* The clock stops here: no timer is set and no call is made later.
MaxTime == 420

\* Delayed or throwing network calls, SIGINTs and missed device wake-ups, together.
MaxDisturbances == 2

\* Runs of waitForDeviceRefresh.
MaxRuns == 2

\* Interval callbacks in progress at once.
MaxCallbacks == 2

\* Length of an error message, in characters.
MaxMessage == 3

\* Calls of refreshAllPlugins.
MaxStarts == 2

\* Throwing screen-management calls.
MaxThrows == 1

\* Entries of the plugin root.
MaxEntries == 2

\* Latency of a slow network call, in seconds.
NetDelay == 5

\* Latency of a network call that outlasts a minute, in seconds.
SlowDelay == 65

\* When the loop starts, in seconds after the device's last refresh.
StartOffset == 7

\* The clock of the interval-polling loop stops here.
MaxPollTime == 2400

\* The refresh rates of the device, in seconds.
RefreshRates == {60, 120}

\* The refresh rates of the device under the interval-polling loop.
LongRefreshRates == {300, 900}

\* No instant: the frame awaits no timer and no call.
None == 0 - 1

----------------------------------------------------------------------------
\* Helpers.

Min(S) == CHOOSE x \in S : \A y \in S : x <= y

Max2(a, b) == IF a >= b THEN a ELSE b

Runs == 1..MaxRuns

\* setTimeout(resolve, ms) with ms <= 0 fires as soon as possible.
sleep(ms) == now + Max2(ms, 0)

\* The latencies a network call may take, given what is left of the budget.
Latencies == {0} \cup (IF budget > 0 THEN {NetDelay, SlowDelay} ELSE {})

\* A call either returns or throws; the number of calls that throw is bounded.
Outcomes == {TRUE} \cup (IF budget > 0 THEN {FALSE} ELSE {})

Cost(d, ok) == (IF d > 0 THEN 1 ELSE 0) + (IF ok THEN 0 ELSE 1)

Affordable(d, ok) == Cost(d, ok) <= budget

Spend(d, ok) == budget - Cost(d, ok)

----------------------------------------------------------------------------
\* Strings are sequences of characters.

StartsWith(s, prefix) ==
    Len(prefix) <= Len(s) /\ SubSeq(s, 1, Len(prefix)) = prefix

Digits36 ==
    << "0", "1", "2", "3", "4", "5", "6", "7", "8", "9", "a", "b", "c", "d", "e",
       "f", "g", "h", "i", "j", "k", "l", "m", "n", "o", "p", "q", "r", "s", "t",
       "u", "v", "w", "x", "y", "z" >>

\* Number.prototype.toString(36), for n >= 0.
RECURSIVE toString36(_)
toString36(n) ==
    IF n < 36 THEN << Digits36[n + 1] >>
    ELSE toString36(n \div 36) \o << Digits36[(n % 36) + 1] >>

----------------------------------------------------------------------------
\* The state outside the coordinator's loop.

NoDevice == [friendly_id |-> << >>, width |-> 0, height |-> 0, identified |-> FALSE]

\* this.device once identifyDevice has run.
DeviceInit == [friendly_id |-> << "D" >>, width |-> 800, height |-> 480, identified |-> TRUE]

\* The constructor's chain and start() before either has taken a step: the
\* chain awaits getDevice(1) of line 55, start() awaits devicesIdentified.
BootInit ==
    [pc |-> "awaiting",     \* start(): awaiting | onStart | loop | rejected
     ctor |-> "getDevice",  \* the chain of lines 45-51: getDevice | getModel | done | rejected
     resolved |-> FALSE,    \* markDeviceAsIdentified() has been called
     dirs |-> << >>,        \* what readdirSync returns for the plugin root
     i |-> 0,               \* the plugin whose onStart start() awaits
     started |-> << >>,     \* history: the plugins whose onStart was invoked, in order
     again |-> "none",      \* a second call of start(): none | onStart | resolved | rejected
     againI |-> 0,          \* the plugin whose onStart it awaits
     refused |-> FALSE]     \* history: line 261 threw for the loop that call started

\* start() has reached line 179.
BootDone == [BootInit EXCEPT !.pc = "loop", !.ctor = "done", !.resolved = TRUE]

\* The calls of refreshAllPlugins(), in the order they are made.
Cycles == 1..MaxStarts

RenderIdle == [pc |-> "idle"]

----------------------------------------------------------------------------
\* The render contract: BasePlugin.renderToBase64 and BasePlugin.drawError.

\* String.prototype.split("\n"): the pieces between the separators.
RECURSIVE split(_)
split(str) ==
    IF \A i \in 1..Len(str) : str[i] # "\n" THEN << str >>
    ELSE LET i == Min({j \in 1..Len(str) : str[j] = "\n"})
         IN  << SubSeq(str, 1, i - 1) >> \o split(SubSeq(str, i + 1, Len(str)))

\* The strings of up to n characters over the letter x and the line break.
RECURSIVE Strings(_)
Strings(n) ==
    IF n = 0 THEN {<< >>}
    ELSE Strings(n - 1) \cup
         {Append(t, c) : t \in {u \in Strings(n - 1) : Len(u) = n - 1}, c \in {"x", "\n"}}

\* What a draw() may throw or reject with: an Error (a name and a message), or
\* a value that is no Error: a string, null, an object without a message.
ErrorValue(name, message) == [kind |-> "Error", name |-> name, message |-> message]

NonErrors == {[kind |-> k] : k \in {"string", "null", "object"}}

Thrown == {ErrorValue(n, m) : n \in {<<"E">>, <<"T">>}, m \in Strings(MaxMessage)} \cup NonErrors

\* draw() returns normally.
Returns == [kind |-> "returns"]

TypeError == [status |-> "rejected", reason |-> "TypeError"]

ErrorHeading == << "h" >>

\* Math.min(lines.length, 5), of line 97.
numLines(lines) == IF Len(lines) < 5 THEN Len(lines) ELSE 5

\* drawError(error), lines 82-107: the texts drawn and where, or the
\* TypeError of reading error.message of null or of calling split on
\* undefined.
drawError(error, width, height) ==
    IF error.kind # "Error" THEN TypeError
    ELSE LET lines == << ErrorHeading, error.name >> \o split(error.message)
         IN  [status |-> "resolved",
              image |-> [kind |-> "error",
                         texts |-> [i \in 1..numLines(lines) |->
                                      [text |-> lines[i], x |-> width \div 2,
                                       y |-> (height \div 2) + (i - 1) * 16]]]]

\* renderToBase64(), lines 113-130, given what draw() does: Returns, or the
\* value it throws.
renderToBase64(draw, width, height) ==
    IF draw.kind = "returns"
    THEN [status |-> "resolved", image |-> [kind |-> "content", texts |-> << >>]]
    ELSE drawError(draw, width, height)

Canvases == {<< 800, 480 >>, << 480, 800 >>, << 200, 100 >>}

\* renderToBase64() is called: lines 114-120, up to await this.draw().
Render_Called ==
    /\ render.pc = "called"
    /\ render' = [render EXCEPT !.pc = "drawing"]
    /\ UNCHANGED << loopVars, bootVars, pubVars, budget, hist >>

\* draw() returns: line 123.
Render_DrawReturns ==
    /\ render.pc = "drawing" /\ render.draw.kind = "returns"
    /\ render' = [render EXCEPT !.pc = "settled",
                    !.outcome = renderToBase64(render.draw, render.width, render.height)]
    /\ UNCHANGED << loopVars, bootVars, pubVars, budget, hist >>

\* draw() throws: the catch of lines 124-129 calls drawError.
Render_DrawThrows ==
    /\ render.pc = "drawing" /\ render.draw.kind # "returns"
    /\ render' = [render EXCEPT !.pc = "settled",
                    !.outcome = renderToBase64(render.draw, render.width, render.height)]
    /\ UNCHANGED << loopVars, bootVars, pubVars, budget, hist >>

----------------------------------------------------------------------------
\* The refresh coordinator: state.

\* The frame of startDeviceSynchronizedLoop. pc names the source line of the
\* await the frame is suspended in; wake is the instant the awaited timer or
\* network call completes (None while it awaits the promise of line 227).
MainInit ==
    [pc |-> "start", wake |-> None, ok |-> TRUE, ctx |-> "init", run |-> 0,
     nextRefreshTime |-> 0, deviceUpdatedAt |-> 0, deviceShouldUpdateAt |-> 0]

\* The closure of one run of waitForDeviceRefresh.
WfrInit ==
    [initialRefreshRate |-> 0, lastDeviceUpdateTime |-> 0,
     listener |-> FALSE,      \* process.on("SIGINT", onSigInt) is in effect
     interval |-> FALSE,      \* the setInterval of line 228 is active
     tick |-> None,           \* when it fires next
     resolved |-> FALSE,      \* the promise of line 227 is settled
     tempSet |-> FALSE,       \* history: updateDevice(1, {refresh_rate: 60}) took effect
     restores |-> 0,          \* history: restoring updateDevice calls made
     restored |-> 0]          \* history: restoring updateDevice calls that took effect

\* No model: getModel has not returned.
NoModel == [rotation |-> 0, width |-> 0, height |-> 0]

HistInit ==
    [trigAt |-> None, trigP |-> None,   \* the last refreshAllPlugins() of line 287: when, and for which predicted instant
     triggers |-> 0,                    \* how many there were
     pollFailed |-> FALSE,              \* a getDevice of the loop (276, 292) threw
     awaitingChange |-> FALSE,          \* a verification poll found updated_at unchanged, and no poll has yet seen it differ
     seenT1 |-> None, seenRate |-> 0,   \* what the last verification poll returned, if it found updated_at advanced
     polledAt |-> None,                 \* when the last poll of line 276 returned
     refreshedSincePoll |-> FALSE,      \* refreshAllPlugins() was called after the last verification poll
     model |-> NoModel,                 \* what getModel of line 60 returned
     pub |-> << >>]                     \* per plugin, how its last calls of refreshScreenForPlugin ended

\* The updateDevice requests in flight, given the frames: which run made
\* each, and the refresh_rate it carries.
Writes(m, cbs, hs, w) ==
    (IF m.pc = "w225"
     THEN {[run |-> m.run, temp |-> TRUE, rate |-> TempRefreshRate]} ELSE {})
    \cup {[run |-> cb.run, temp |-> FALSE, rate |-> w[cb.run].initialRefreshRate] :
             cb \in {c \in cbs : c.pc = "c249"}}
    \cup {[run |-> h.run, temp |-> FALSE, rate |-> w[h.run].initialRefreshRate] :
             h \in hs}

\* A rejected promise nobody handles: the runtime either reports it and goes
\* on, or ends the process with an error.
UnhandledOutcomes == {"running", "crashed"}

Due(f) == f.wake # None /\ f.wake <= now

----------------------------------------------------------------------------
\* The process ending, and what it leaves behind.

\* The process ends in state p (or goes on, p = "running"): the requests the
\* frames m, cbs, hs still had in flight are on their way to the server.
Ends(p, m, cbs, hs, w) ==
    /\ proc' = p
    /\ orphans' = IF p = "running" THEN orphans ELSE Writes(m, cbs, hs, w)

\* The promise of the frame is rejected and nothing handles it.
Rejects(m, cbs, hs, w) ==
    \E p \in UnhandledOutcomes : Ends(p, m, cbs, hs, w)

----------------------------------------------------------------------------
\* PluginLoop.waitForDeviceRefresh, as awaited by startDeviceSynchronizedLoop.

\* The call waitForDeviceRefresh(): up to its first await, getDevice(1).
EnterWait(ctx, d, ok) ==
    [main EXCEPT !.pc = "w201", !.wake = now + d, !.ok = ok, !.ctx = ctx,
                 !.run = @ + 1]

\* startDeviceSynchronizedLoop up to its first await.
StartLoop ==
    /\ proc = "running" /\ boot.pc = "loop" /\ main.pc = "start"
    /\ ~running
    /\ running' = TRUE
    /\ \E d \in Latencies, ok \in Outcomes :
         /\ main' = EnterWait("init", d, ok)
         /\ Affordable(d, ok) /\ budget' = Spend(d, ok)
    /\ UNCHANGED << now, srv, dev, proc, wfr, callbacks, handlers, orphans, hist >>
    /\ UNCHANGED << bootVars, pubVars, render >>

\* getDevice(1) of line 201 returns: lines 202-225, up to await updateDevice.
Wait_GotDevice ==
    /\ proc = "running" /\ main.pc = "w201" /\ Due(main) /\ main.ok
    /\ wfr' = [wfr EXCEPT ![main.run] =
                 [@ EXCEPT !.initialRefreshRate = srv.refresh_rate,
                           !.lastDeviceUpdateTime = srv.updated_at,
                           !.listener = TRUE]]
    /\ \E d \in Latencies, ok \in Outcomes :
         /\ main' = [main EXCEPT !.pc = "w225", !.wake = now + d, !.ok = ok]
         /\ Affordable(d, ok) /\ budget' = Spend(d, ok)
    /\ UNCHANGED << now, srv, dev, proc, running, callbacks, handlers, orphans, hist >>
    /\ UNCHANGED << bootVars, pubVars, render >>

\* A call awaited by the loop's frame throws (lines 201, 225, 276, 292):
\* nothing catches it, startDeviceSynchronizedLoop rejects, and start() did not
\* await it.
Loop_Throws ==
    /\ proc = "running" /\ main.pc \in {"w201", "w225", "l276", "l292"}
    /\ Due(main) /\ ~main.ok
    /\ main' = [main EXCEPT !.pc = "dead", !.wake = None]
    /\ hist' = [hist EXCEPT !.pollFailed = @ \/ main.pc \in {"l276", "l292"}]
    /\ Rejects(main', callbacks, handlers, wfr)
    /\ UNCHANGED << now, srv, dev, running, wfr, callbacks, handlers, budget >>
    /\ UNCHANGED << bootVars, pubVars, render >>

\* updateDevice(1, {refresh_rate: 60}) of line 225 returns: the promise of
\* line 227 is created and its executor starts the interval.
Wait_TempRateSet ==
    /\ proc = "running" /\ main.pc = "w225" /\ Due(main) /\ main.ok
    /\ srv' = [srv EXCEPT !.refresh_rate = TempRefreshRate]
    /\ wfr' = [wfr EXCEPT ![main.run] =
                 [@ EXCEPT !.interval = TRUE, !.tick = now + IntervalPeriod,
                           !.tempSet = TRUE]]
    /\ main' = [main EXCEPT !.pc = "w227", !.wake = None]
    /\ UNCHANGED << now, dev, proc, running, callbacks, handlers, orphans, budget, hist >>
    /\ UNCHANGED << bootVars, pubVars, render >>

\* The interval of line 228 fires: the callback runs up to await getDevice(1).
Interval_Fires(r) ==
    /\ proc = "running" /\ wfr[r].interval /\ wfr[r].tick <= now
    /\ Cardinality(callbacks) < MaxCallbacks
    /\ wfr' = [wfr EXCEPT ![r] = [@ EXCEPT !.tick = @ + IntervalPeriod]]
    /\ \E d \in Latencies, ok \in Outcomes :
         /\ callbacks' = callbacks \cup
               {[run |-> r, pc |-> "c229", wake |-> now + d, ok |-> ok,
                 born |-> now, nextRefreshTime |-> 0]}
         /\ Affordable(d, ok) /\ budget' = Spend(d, ok)
    /\ UNCHANGED << now, srv, dev, proc, running, main, handlers, orphans, hist >>
    /\ UNCHANGED << bootVars, pubVars, render >>

\* A call awaited by an interval callback throws (lines 229, 242, 249): the
\* callback's promise rejects, the interval and the SIGINT listener stay.
Callback_Throws(cb) ==
    /\ proc = "running" /\ cb \in callbacks
    /\ cb.pc \in {"c229", "c242", "c249"} /\ Due(cb) /\ ~cb.ok
    /\ callbacks' = callbacks \ {cb}
    /\ Rejects(main, callbacks', handlers, wfr)
    /\ UNCHANGED << now, srv, dev, running, main, wfr, handlers, budget, hist >>
    /\ UNCHANGED << bootVars, pubVars, render >>

\* History: a poll made during the current recovery returns an updated_at
\* other than the one that recovery started with (line 203).
SeesChange(updatedAt) ==
    /\ main.pc \in {"w225", "w227"}
    /\ updatedAt # wfr[main.run].lastDeviceUpdateTime

\* Lines 249 and 251 in the other order: the SIGINT listener is removed when
\* the restoring call is made, before it has completed.
CallRestore_offFirst(cb, next, d, ok) ==
    /\ callbacks' = (callbacks \ {cb}) \cup
          {[cb EXCEPT !.pc = "c249", !.wake = now + d, !.ok = ok,
                      !.nextRefreshTime = next]}
    /\ wfr' = [wfr EXCEPT ![cb.run] = [@ EXCEPT !.restores = @ + 1,
                                                !.listener = FALSE]]
    /\ Affordable(d, ok) /\ budget' = Spend(d, ok)

\* The restoring call of line 249 is made.
CallRestore(cb, next, d, ok) ==
    /\ callbacks' = (callbacks \ {cb}) \cup
          {[cb EXCEPT !.pc = "c249", !.wake = now + d, !.ok = ok,
                      !.nextRefreshTime = next]}
    /\ wfr' = [wfr EXCEPT ![cb.run] = [@ EXCEPT !.restores = @ + 1]]
    /\ Affordable(d, ok) /\ budget' = Spend(d, ok)

\* _lastDeviceUpdateTime === lastDeviceUpdateTime, of line 232.
deviceDidNotRefresh(_lastDeviceUpdateTime, lastDeviceUpdateTime) ==
    _lastDeviceUpdateTime = lastDeviceUpdateTime

\* getDevice(1) of line 229 returns: lines 230-249, up to the next await.
Callback_GotDevice(cb) ==
    /\ proc = "running" /\ cb \in callbacks
    /\ cb.pc = "c229" /\ Due(cb) /\ cb.ok
    /\ LET last == srv.updated_at
           nextRefreshTime == last + TempRefreshRate
       IN  /\ hist' = [hist EXCEPT !.awaitingChange = @ /\ ~SeesChange(last)]
           /\ IF deviceDidNotRefresh(last, wfr[cb.run].lastDeviceUpdateTime)
              THEN \* the device did not refresh
                   /\ callbacks' = callbacks \ {cb}
                   /\ UNCHANGED << wfr, budget >>
              ELSE IF nextRefreshTime < now + NearRefresh
              THEN /\ callbacks' = (callbacks \ {cb}) \cup
                         {[cb EXCEPT !.pc = "c241", !.wake = sleep(ExtraSleep)]}
                   /\ UNCHANGED << wfr, budget >>
              ELSE \E d \in Latencies, ok \in Outcomes :
                      CallRestore(cb, nextRefreshTime, d, ok)
    /\ UNCHANGED << now, srv, dev, proc, running, main, handlers, orphans >>
    /\ UNCHANGED << bootVars, pubVars, render >>

\* sleep(25_000) of line 241 is over: getDevice(1) of line 242 is called.
Callback_Slept(cb) ==
    /\ proc = "running" /\ cb \in callbacks
    /\ cb.pc = "c241" /\ Due(cb)
    /\ \E d \in Latencies, ok \in Outcomes :
         /\ callbacks' = (callbacks \ {cb}) \cup
               {[cb EXCEPT !.pc = "c242", !.wake = now + d, !.ok = ok]}
         /\ Affordable(d, ok) /\ budget' = Spend(d, ok)
    /\ UNCHANGED << now, srv, dev, proc, running, main, wfr, handlers, orphans, hist >>
    /\ UNCHANGED << bootVars, pubVars, render >>

\* getDevice(1) of line 242 returns: lines 243-249.
Callback_GotDeviceAgain(cb) ==
    /\ proc = "running" /\ cb \in callbacks
    /\ cb.pc = "c242" /\ Due(cb) /\ cb.ok
    /\ hist' = [hist EXCEPT !.awaitingChange = @ /\ ~SeesChange(srv.updated_at)]
    /\ \E d \in Latencies, ok \in Outcomes :
         CallRestore(cb, srv.updated_at + TempRefreshRate, d, ok)
    /\ UNCHANGED << now, srv, dev, proc, running, main, handlers, orphans >>
    /\ UNCHANGED << bootVars, pubVars, render >>

\* updateDevice of line 249 returns: lines 251-254. resolve() settles the
\* promise once; the loop's frame resumes after its await.
Callback_Restored(cb) ==
    /\ proc = "running" /\ cb \in callbacks
    /\ cb.pc = "c249" /\ Due(cb) /\ cb.ok
    /\ srv' = [srv EXCEPT !.refresh_rate = wfr[cb.run].initialRefreshRate]
    /\ callbacks' = callbacks \ {cb}
    /\ wfr' = [wfr EXCEPT ![cb.run] =
                 [@ EXCEPT !.listener = FALSE, !.interval = FALSE,
                           !.resolved = TRUE, !.restored = @ + 1]]
    /\ main' = IF ~wfr[cb.run].resolved /\ main.pc = "w227" /\ main.run = cb.run
               THEN [main EXCEPT !.pc = "resumed", !.wake = now,
                                 !.nextRefreshTime = cb.nextRefreshTime]
               ELSE main
    /\ UNCHANGED << now, dev, proc, running, handlers, orphans, budget, hist >>
    /\ UNCHANGED << bootVars, pubVars, render >>

----------------------------------------------------------------------------
\* PluginLoop.startDeviceSynchronizedLoop.

\* await waitForDeviceRefresh() of line 269 or 300 is over: the log line, then
\* refreshAllPlugins() is called and awaited (lines 271, 302). The cycle takes
\* as long as its renders and network calls take.
Loop_Resumed ==
    /\ proc = "running" /\ main.pc = "resumed" /\ Due(main)
    /\ \E d \in Latencies :
         /\ main' = [main EXCEPT !.pc = "refreshing", !.wake = now + d]
         /\ Affordable(d, TRUE) /\ budget' = Spend(d, TRUE)
    /\ hist' = [hist EXCEPT !.refreshedSincePoll = TRUE]
    /\ UNCHANGED << now, srv, dev, proc, running, wfr, callbacks, handlers, orphans >>
    /\ UNCHANGED << bootVars, pubVars, render >>

\* The awaited cycle is over: sleep(nextRefreshTime - Date.now() + oneMinute).
Loop_Refreshed ==
    /\ proc = "running" /\ main.pc = "refreshing" /\ Due(main)
    /\ main' = [main EXCEPT !.pc = "s272",
                            !.wake = sleep(main.nextRefreshTime - now + oneMinute)]
    /\ UNCHANGED << now, srv, dev, proc, running, wfr, callbacks, handlers, orphans, budget, hist >>
    /\ UNCHANGED << bootVars, pubVars, render >>

\* The poll at the top of the while loop (line 276) is made.
CallGetDevice(d, ok) ==
    [main EXCEPT !.pc = "l276", !.wake = now + d, !.ok = ok]

\* The sleep of line 272 (or 303) is over: the loop is entered.
Loop_Top ==
    /\ proc = "running" /\ main.pc = "s272" /\ Due(main)
    /\ \E d \in Latencies, ok \in Outcomes :
         /\ main' = CallGetDevice(d, ok)
         /\ Affordable(d, ok) /\ budget' = Spend(d, ok)
    /\ UNCHANGED << now, srv, dev, proc, running, wfr, callbacks, handlers, orphans, hist >>
    /\ UNCHANGED << bootVars, pubVars, render >>

\* Line 281 without the margin: the sleep lasts until the predicted instant.
timeToWait_noMargin(deviceShouldUpdateAt) == deviceShouldUpdateAt - now

\* deviceShouldUpdateAt - Date.now() - oneMinute, of line 281.
timeToWait(deviceShouldUpdateAt) == deviceShouldUpdateAt - now - oneMinute

\* getDevice(1) of line 276 returns: lines 277-284, the prediction and the sleep.
Loop_Predicts ==
    /\ proc = "running" /\ main.pc = "l276" /\ Due(main) /\ main.ok
    /\ LET refreshRate == srv.refresh_rate
           deviceUpdatedAt == srv.updated_at
           deviceShouldUpdateAt == deviceUpdatedAt + refreshRate
       IN  main' = [main EXCEPT !.pc = "s284",
                                !.wake = sleep(timeToWait(deviceShouldUpdateAt)),
                                !.deviceUpdatedAt = deviceUpdatedAt,
                                !.deviceShouldUpdateAt = deviceShouldUpdateAt]
    /\ hist' = [hist EXCEPT !.polledAt = now]
    /\ UNCHANGED << now, srv, dev, proc, running, wfr, callbacks, handlers, orphans, budget >>
    /\ UNCHANGED << bootVars, pubVars, render >>

\* Line 287 with a write of the device's refresh rate next to it: the
\* steady-state loop pins the device to one refresh per minute.
Loop_Triggers_writesRate ==
    /\ proc = "running" /\ main.pc = "s284" /\ Due(main)
    /\ hist' = [hist EXCEPT !.trigAt = now, !.trigP = main.deviceShouldUpdateAt,
                            !.triggers = @ + 1, !.refreshedSincePoll = TRUE]
    /\ main' = [main EXCEPT !.pc = "s289", !.wake = sleep(oneMinute)]
    /\ srv' = [srv EXCEPT !.refresh_rate = TempRefreshRate]
    /\ UNCHANGED << now, dev, proc, running, wfr, callbacks, handlers, orphans, budget >>
    /\ UNCHANGED << bootVars, pubVars, render >>

\* The sleep of line 284 is over: this.refreshAllPlugins() of line 287, not
\* awaited, then sleep(oneMinute).
Loop_Triggers ==
    /\ proc = "running" /\ main.pc = "s284" /\ Due(main)
    /\ hist' = [hist EXCEPT !.trigAt = now, !.trigP = main.deviceShouldUpdateAt,
                            !.triggers = @ + 1, !.refreshedSincePoll = TRUE]
    /\ main' = [main EXCEPT !.pc = "s289", !.wake = sleep(oneMinute)]
    /\ UNCHANGED << now, srv, dev, proc, running, wfr, callbacks, handlers, orphans, budget >>
    /\ UNCHANGED << bootVars, pubVars, render >>

\* The sleep of line 289 is over: the verification poll of line 292 is made.
Loop_Verifies ==
    /\ proc = "running" /\ main.pc = "s289" /\ Due(main)
    /\ \E d \in Latencies, ok \in Outcomes :
         /\ main' = [main EXCEPT !.pc = "l292", !.wake = now + d, !.ok = ok]
         /\ Affordable(d, ok) /\ budget' = Spend(d, ok)
    /\ UNCHANGED << now, srv, dev, proc, running, wfr, callbacks, handlers, orphans, hist >>
    /\ UNCHANGED << bootVars, pubVars, render >>

\* The comparison of line 295 turned round: a changed updated_at taken for a
\* missed refresh.
deviceDisconnected_inverted(_deviceUpdatedAt, deviceUpdatedAt) ==
    _deviceUpdatedAt # deviceUpdatedAt

\* _deviceUpdatedAt === deviceUpdatedAt, of line 295.
deviceDisconnected(_deviceUpdatedAt, deviceUpdatedAt) ==
    _deviceUpdatedAt = deviceUpdatedAt

\* getDevice(1) of line 292 returns: lines 293-300. With a changed updated_at
\* the next iteration starts with the poll of line 276; with the same
\* updated_at waitForDeviceRefresh() is called.
Loop_Verified ==
    /\ proc = "running" /\ main.pc = "l292" /\ Due(main) /\ main.ok
    /\ hist' = [hist EXCEPT
                  !.awaitingChange = (srv.updated_at = main.deviceUpdatedAt),
                  !.seenT1 = IF srv.updated_at = main.deviceUpdatedAt THEN None
                             ELSE srv.updated_at,
                  !.seenRate = IF srv.updated_at = main.deviceUpdatedAt THEN 0
                               ELSE srv.refresh_rate,
                  !.refreshedSincePoll = FALSE]
    /\ \E d \in Latencies, ok \in Outcomes :
         /\ Affordable(d, ok) /\ budget' = Spend(d, ok)
         /\ IF deviceDisconnected(srv.updated_at, main.deviceUpdatedAt)
            THEN /\ main.run < MaxRuns
                 /\ main' = EnterWait("recover", d, ok)
            ELSE main' = CallGetDevice(d, ok)
    /\ UNCHANGED << now, srv, dev, proc, running, wfr, callbacks, handlers, orphans >>
    /\ UNCHANGED << bootVars, pubVars, render >>

----------------------------------------------------------------------------
\* SIGINT.

\* SIGINT is delivered. With a listener installed, onSigInt runs up to its
\* await updateDevice (line 207); with none, the default disposition ends the
\* process.
SigInt ==
    /\ proc = "running" /\ budget > 0
    /\ LET listeners == {r \in Runs : wfr[r].listener}
       IN  IF listeners = {}
           THEN /\ Ends("killed", main, callbacks, handlers, wfr)
                /\ budget' = budget - 1
                /\ UNCHANGED << wfr, handlers >>
           ELSE /\ \E d \in Latencies, ok \in Outcomes :
                     /\ handlers' = handlers \cup
                           {[run |-> r, wake |-> now + d, ok |-> ok, born |-> now] :
                               r \in listeners}
                     /\ Cost(d, ok) + 1 <= budget
                     /\ budget' = Spend(d, ok) - 1
                /\ wfr' = [r \in Runs |->
                             IF r \in listeners
                             THEN [wfr[r] EXCEPT !.restores = @ + 1]
                             ELSE wfr[r]]
                /\ UNCHANGED << proc, orphans >>
    /\ UNCHANGED << now, srv, dev, running, main, callbacks, hist >>
    /\ UNCHANGED << bootVars, pubVars, render >>

\* updateDevice of line 207 returns: process.exit() of line 210.
OnSigInt_Exits(h) ==
    /\ proc = "running" /\ h \in handlers /\ Due(h) /\ h.ok
    /\ srv' = [srv EXCEPT !.refresh_rate = wfr[h.run].initialRefreshRate]
    /\ handlers' = handlers \ {h}
    /\ wfr' = [wfr EXCEPT ![h.run] = [@ EXCEPT !.restored = @ + 1]]
    /\ Ends("exited", main, callbacks, handlers', wfr)
    /\ UNCHANGED << now, dev, running, main, callbacks, budget, hist >>
    /\ UNCHANGED << bootVars, pubVars, render >>

\* updateDevice of line 207 throws: onSigInt rejects before process.exit().
OnSigInt_Throws(h) ==
    /\ proc = "running" /\ h \in handlers /\ Due(h) /\ ~h.ok
    /\ handlers' = handlers \ {h}
    /\ Rejects(main, callbacks, handlers', wfr)
    /\ UNCHANGED << now, srv, dev, running, main, wfr, callbacks, budget, hist >>
    /\ UNCHANGED << bootVars, pubVars, render >>

\* A request the ended process had sent reaches the server.
Orphan_Arrives(req) ==
    /\ proc # "running" /\ req \in orphans
    /\ srv' = [srv EXCEPT !.refresh_rate = req.rate]
    /\ orphans' = orphans \ {req}
    /\ wfr' = [wfr EXCEPT ![req.run] =
                 [@ EXCEPT !.tempSet = @ \/ req.temp,
                           !.restored = IF req.temp THEN @ ELSE @ + 1]]
    /\ UNCHANGED << now, dev, proc, running, main, callbacks, handlers, budget, hist >>
    /\ UNCHANGED << bootVars, pubVars, render >>

----------------------------------------------------------------------------
\* The device and the clock.

\* The device wakes up and reaches the server: it fetches its content, the
\* server stamps updated_at and hands it the refresh rate it sleeps next.
Device_Refreshes ==
    /\ proc = "running" /\ dev.nextWake <= now
    /\ srv' = [srv EXCEPT !.updated_at = now]
    /\ dev' = [dev EXCEPT !.nextWake = now + srv.refresh_rate,
                          !.rate = srv.refresh_rate]
    /\ UNCHANGED << now, proc, running, main, wfr, callbacks, handlers, orphans, budget, hist >>
    /\ UNCHANGED << bootVars, pubVars, render >>

\* The device wakes up and does not reach the server: it sleeps again for
\* the rate it knows.
Device_Misses ==
    /\ proc = "running" /\ dev.nextWake <= now /\ budget > 0
    /\ dev' = [dev EXCEPT !.nextWake = now + dev.rate]
    /\ budget' = budget - 1
    /\ UNCHANGED << now, srv, proc, running, main, wfr, callbacks, handlers, orphans, hist >>
    /\ UNCHANGED << bootVars, pubVars, render >>

\* The instants at which something is due.
Deadlines ==
    {dev.nextWake}
    \cup (IF main.wake # None THEN {main.wake} ELSE {})
    \cup {cb.wake : cb \in callbacks}
    \cup {h.wake : h \in {g \in handlers : g.wake # None}}
    \cup {wfr[r].tick : r \in {q \in Runs : wfr[q].interval}}

\* Nothing is due now: the clock moves to the next instant something is.
Tick ==
    /\ proc = "running"
    /\ \A t \in Deadlines : t > now
    /\ Min(Deadlines) <= MaxTime
    /\ now' = Min(Deadlines)
    /\ UNCHANGED << srv, dev, proc, running, main, wfr, callbacks, handlers, orphans, budget, hist >>
    /\ UNCHANGED << bootVars, pubVars, render >>

----------------------------------------------------------------------------
\* The screen publisher: PluginLoop.refreshScreenForPlugin and refreshAllPlugins.

\* plugin.pluginName + "_" + this.device.friendly_id, of line 144.
screenPrefix(plugin) == plugin.pluginName \o << "_" >> \o device.friendly_id

\* screenPrefix + "_" + Date.now().toString(36), of line 152.
screenName(plugin) == screenPrefix(plugin) \o << "_" >> \o toString36(now)

\* The test of line 147 with === for startsWith: no stored name, which ends
\* in a timestamp, ever equals the prefix.
isOldScreen_exact(screen, plugin) == screen.name = screenPrefix(plugin)

\* screen.name.startsWith(screenPrefix), of line 147.
isOldScreen(screen, plugin) == StartsWith(screen.name, screenPrefix(plugin))

\* The screens of a set, in the order the server lists them (by id).
RECURSIVE listing(_)
listing(S) ==
    IF S = {} THEN << >>
    ELSE LET first == CHOOSE x \in S : \A y \in S : x.id <= y.id
         IN  << first >> \o listing(S \ {first})

\* The for loop of lines 146-150, from position pos of the list: the next
\* screen to remove, or 0.
nextOldScreen(list, pos, plugin) ==
    LET later == {j \in (pos + 1)..Len(list) : isOldScreen(list[j], plugin)}
    IN  IF later = {} THEN 0 ELSE Min(later)

\* The frame of a refreshAllPlugins() that has not been called yet.
Idle ==
    [pc |-> "idle", idx |-> 0, awaited |-> FALSE, b64 |-> "none",
     list |-> << >>, pos |-> 0, newId |-> 0,
     attempted |-> << >>,    \* history: the plugins whose refresh was called, in order
     failed |-> FALSE,       \* history: one of them threw
     solo |-> TRUE]          \* history: no other refreshScreenForPlugin ran during the current one

InCall(f) == f.pc \in {"render", "getScreens", "removeScreen", "addScreen", "attach"}

\* refreshAllPlugins, lines 185-191: the for loop goes to the next plugin and
\* calls refreshScreenForPlugin, which runs up to await renderToBase64();
\* after the last plugin the cycle is over.
nextPlugin(f) ==
    IF f.idx < Len(plugins)
    THEN [f EXCEPT !.pc = "render", !.idx = @ + 1, !.b64 = "none",
                   !.list = << >>, !.pos = 0, !.newId = 0,
                   !.attempted = Append(@, f.idx + 1)]
    ELSE [f EXCEPT !.pc = "done", !.b64 = "none", !.list = << >>, !.pos = 0,
                   !.newId = 0, !.solo = TRUE]

\* refreshAllPlugins without the try of lines 186-190: the error of one
\* plugin ends the cycle.
caught_rethrown(f) == [f EXCEPT !.pc = "raised", !.failed = TRUE]

\* The catch of lines 188-190: the error is logged and the loop goes on.
caught(f) == nextPlugin([f EXCEPT !.failed = TRUE])

\* The for loop of lines 146-150 goes on from f.pos: the next removeScreen,
\* or, the list exhausted, addScreen of line 155.
removeNext(f) ==
    LET j == nextOldScreen(f.list, f.pos, plugins[f.idx])
    IN  IF j = 0 THEN [f EXCEPT !.pc = "addScreen"]
        ELSE [f EXCEPT !.pc = "removeScreen", !.pos = j]

\* Cycle c goes from its frame to f: the frames after the step. History: a
\* refreshScreenForPlugin that starts while another runs leaves neither alone.
Frames(c, f) ==
    LET starts == f.pc = "render"
        others == \E o \in Cycles \ {c} : InCall(cycles[o])
    IN  [o \in Cycles |->
           IF o = c THEN (IF starts THEN [f EXCEPT !.solo = ~others] ELSE f)
           ELSE IF starts /\ InCall(cycles[o]) THEN [cycles[o] EXCEPT !.solo = FALSE]
           ELSE cycles[o]]

\* History of the calls of refreshScreenForPlugin for plugin i, as the call
\* of frame f ends: how many calls in a row returned, each run alone, and
\* whether the last of them left exactly one screen with the plugin's prefix,
\* the one it created.
Published(i, f, returned, scr) ==
    IF returned /\ f.solo
    THEN [calls |-> IF hist.pub[i].calls < 2 THEN hist.pub[i].calls + 1 ELSE 2,
          one |-> {x.id : x \in {y \in scr : StartsWith(y.name, screenPrefix(plugins[i]))}}
                    = {f.newId}]
    ELSE [calls |-> 0, one |-> FALSE]

\* What draw() does in a cycle: it returns, throws an Error, or throws a
\* value that is no Error.
CycleDraws == {Returns, ErrorValue(<< "E" >>, << "x" >>), [kind |-> "string"]}

\* renderToBase64() of line 139 settles: getScreens() of line 142 is called,
\* or the rejection reaches the catch of refreshAllPlugins.
Publish_Rendered(c) ==
    /\ cycles[c].pc = "render"
    /\ \E draw \in CycleDraws :
         LET f == cycles[c]
             out == renderToBase64(draw, plugins[f.idx].width, plugins[f.idx].height)
         IN  IF out.status = "resolved"
             THEN /\ cycles' = Frames(c, [f EXCEPT !.pc = "getScreens", !.b64 = out.image.kind])
                  /\ UNCHANGED hist
             ELSE /\ cycles' = Frames(c, caught(f))
                  /\ hist' = [hist EXCEPT !.pub[f.idx] = Published(f.idx, f, FALSE, screens)]
    /\ UNCHANGED << loopVars, bootVars, screens, playlist, nextId, coord, render, budget >>

\* getScreens() returns: the for loop of lines 146-150 starts.
Publish_GotScreens(c) ==
    /\ cycles[c].pc = "getScreens"
    /\ cycles' = Frames(c, removeNext([cycles[c] EXCEPT !.list = listing(screens), !.pos = 0]))
    /\ UNCHANGED << loopVars, bootVars, screens, playlist, nextId, coord, render, budget, hist >>

\* removeScreen(screen.id) of line 148 returns, or throws because the server
\* no longer has that screen.
Publish_Removed(c) ==
    /\ cycles[c].pc = "removeScreen"
    /\ LET f == cycles[c]
           id == f.list[f.pos].id
       IN  IF \E x \in screens : x.id = id
           THEN /\ screens' = {x \in screens : x.id # id}
                /\ playlist' = playlist \ {id}
                /\ cycles' = Frames(c, removeNext(f))
                /\ UNCHANGED hist
           ELSE /\ cycles' = Frames(c, caught(f))
                /\ hist' = [hist EXCEPT !.pub[f.idx] = Published(f.idx, f, FALSE, screens)]
                /\ UNCHANGED << screens, playlist >>
    /\ UNCHANGED << loopVars, bootVars, nextId, coord, render, budget >>

\* addScreen(...) of line 155 returns the id of the new screen.
Publish_Added(c) ==
    /\ cycles[c].pc = "addScreen"
    /\ LET f == cycles[c]
       IN  /\ screens' = screens \cup
                {[id |-> nextId, name |-> screenName(plugins[f.idx]), img |-> f.b64]}
           /\ nextId' = nextId + 1
           /\ cycles' = Frames(c, [f EXCEPT !.pc = "attach", !.newId = nextId,
                                            !.list = << >>, !.pos = 0, !.b64 = "none"])
    /\ UNCHANGED << loopVars, bootVars, playlist, coord, render, budget, hist >>

\* addScreenToPlaylist(...) of line 164 returns: refreshScreenForPlugin
\* returns, and the for loop of refreshAllPlugins goes on.
Publish_Attached(c) ==
    /\ cycles[c].pc = "attach"
    /\ LET f == cycles[c]
       IN  /\ \E x \in screens : x.id = f.newId
           /\ playlist' = playlist \cup {f.newId}
           /\ cycles' = Frames(c, nextPlugin(f))
           /\ hist' = [hist EXCEPT !.pub[f.idx] = Published(f.idx, f, TRUE, screens)]
    /\ UNCHANGED << loopVars, bootVars, screens, nextId, coord, render, budget >>

\* A screen-management call (lines 142, 148, 155, 164) throws.
Publish_Throws(c) ==
    /\ cycles[c].pc \in {"getScreens", "removeScreen", "addScreen", "attach"}
    /\ budget > 0
    /\ budget' = budget - 1
    /\ cycles' = Frames(c, caught(cycles[c]))
    /\ hist' = [hist EXCEPT !.pub[cycles[c].idx] =
                  Published(cycles[c].idx, cycles[c], FALSE, screens)]
    /\ UNCHANGED << loopVars, bootVars, screens, playlist, nextId, coord, render >>

\* refreshAllPlugins() is called for the c-th time: lines 183-187, up to the
\* first await.
Called(c, awaited) ==
    /\ cycles[c].pc = "idle"
    /\ \A o \in 1..(c - 1) : cycles[o].pc # "idle"
    /\ cycles' = Frames(c, nextPlugin([Idle EXCEPT !.awaited = awaited]))

\* await this.refreshAllPlugins() of line 271, after the first
\* waitForDeviceRefresh().
Coordinator_FirstRefresh(c) ==
    /\ running /\ coord = "start"
    /\ Called(c, TRUE)
    /\ coord' = "awaiting"
    /\ UNCHANGED << loopVars, bootVars, screens, playlist, nextId, render, budget, hist >>

\* this.refreshAllPlugins() of line 287: the cycle is started and not awaited;
\* the loop goes on to its sleeps and polls whatever the cycle does.
Coordinator_Triggers(c) ==
    /\ coord = "loop"
    /\ Called(c, FALSE)
    /\ UNCHANGED << loopVars, bootVars, screens, playlist, nextId, coord, render, budget, hist >>

\* await this.refreshAllPlugins() of line 302, after a recovery.
Coordinator_Recovers(c) ==
    /\ coord = "loop"
    /\ Called(c, TRUE)
    /\ coord' = "awaiting"
    /\ UNCHANGED << loopVars, bootVars, screens, playlist, nextId, render, budget, hist >>

\* refreshAllPlugins() returns (or, were an error to escape it, rejects), and
\* the coordinator awaiting it goes on (or ends with that error).
Cycle_Returns(c) ==
    /\ cycles[c].pc \in {"done", "raised"}
    /\ cycles' = [cycles EXCEPT ![c] =
                    [@ EXCEPT !.pc = IF @ = "done" THEN "returned" ELSE "rejected"]]
    /\ coord' = IF ~cycles[c].awaited THEN coord
                ELSE IF cycles[c].pc = "raised" THEN "dead" ELSE "loop"
    /\ UNCHANGED << loopVars, bootVars, screens, playlist, nextId, render, budget, hist >>

----------------------------------------------------------------------------
\* Startup: the constructor's chain identifyDevice -> discoverPlugins ->
\* markDeviceAsIdentified, and start(), which awaits that chain.

\* The % of JavaScript: the remainder has the sign of the dividend.
rem(a, b) == IF a >= 0 THEN a % b ELSE 0 - ((0 - a) % b)

Rotations == {0, 90, 180, 270, 360, 0 - 90, 0 - 180, 0 - 270}

\* What getModel(device.model_id) returns.
Models == {[rotation |-> r, width |-> 800, height |-> 480] : r \in Rotations}

\* Line 61 written as a test of the remainder of the rotation itself: with
\* the remainder of JavaScript it misses the negative quarter turns.
isRotated_remainder(model) == rem(model.rotation, 180) = 90

\* identifyDevice, line 61.
isRotated(model) == rem(model.rotation + 90, 180) = 0

\* An entry of the plugin root: its name, whether it is a directory, whether
\* it holds config.json and index.ts, what config.json holds, and whether
\* index.ts exports a default class. config.json is "ok" (enabled and config
\* present, enabled not false), "disabled" (enabled: false, config present),
\* "disabledNoConfig" (enabled: false, no config key), "noEnabled", "noConfig"
\* (enabled present and not false) or "invalid" (no JSON).
Entry(name, isDirectory, config, index, json, exports) ==
    [name |-> name, isDirectory |-> isDirectory, config |-> config,
     index |-> index, json |-> json, exports |-> exports]

Entries ==
    { Entry(<< "example" >>, TRUE, FALSE, FALSE, "ok", FALSE),
      Entry(<< "f" >>, FALSE, FALSE, FALSE, "ok", FALSE),
      Entry(<< "a" >>, TRUE, TRUE, TRUE, "ok", TRUE),
      Entry(<< "b" >>, TRUE, TRUE, TRUE, "ok", TRUE),
      Entry(<< "c" >>, TRUE, TRUE, TRUE, "disabled", TRUE),
      Entry(<< "d" >>, TRUE, TRUE, TRUE, "disabledNoConfig", TRUE),
      Entry(<< "m" >>, TRUE, FALSE, TRUE, "ok", TRUE),
      Entry(<< "n" >>, TRUE, TRUE, FALSE, "ok", TRUE),
      Entry(<< "j" >>, TRUE, TRUE, TRUE, "invalid", TRUE),
      Entry(<< "k" >>, TRUE, TRUE, TRUE, "noEnabled", TRUE),
      Entry(<< "l" >>, TRUE, TRUE, TRUE, "noConfig", TRUE),
      Entry(<< "x" >>, TRUE, TRUE, TRUE, "ok", FALSE) }

\* The listings readdirSync may return: no name twice.
Listings ==
    { l \in UNION {[1..n -> Entries] : n \in 0..MaxEntries} :
        \A i, j \in 1..Len(l) : l[i].name = l[j].name => i = j }

\* The loop body with the checks of lines 82-88 skipping the directory
\* instead of throwing.
discoverEntry_lenient(e) ==
    IF e.name = << "example" >> \/ ~e.isDirectory THEN "continue"
    ELSE IF ~e.config \/ ~e.index THEN "continue"
    ELSE IF e.json \in {"invalid", "noEnabled", "noConfig"} \/ ~e.exports THEN "throw"
    ELSE IF e.json \in {"disabled", "disabledNoConfig"} THEN "continue"
    ELSE "push"

\* The loop body without the test of lines 104-107: a plugin that its
\* config.json disables is loaded like any other.
discoverEntry_ignoresEnabled(e) ==
    IF e.name = << "example" >> THEN "continue"
    ELSE IF ~e.isDirectory THEN "continue"
    ELSE IF ~e.config THEN "throw"
    ELSE IF ~e.index THEN "throw"
    ELSE IF e.json = "invalid" THEN "throw"
    ELSE IF e.json = "noEnabled" THEN "throw"
    ELSE IF e.json \in {"noConfig", "disabledNoConfig"} THEN "throw"
    ELSE IF ~e.exports THEN "throw"
    ELSE "push"

\* The body of the for loop of lines 71-131 for one entry: the entry is
\* skipped, an error is thrown, or a plugin is pushed.
discoverEntry(e) ==
    IF e.name = << "example" >> THEN "continue"
    ELSE IF ~e.isDirectory THEN "continue"
    ELSE IF ~e.config THEN "throw"
    ELSE IF ~e.index THEN "throw"
    ELSE IF e.json = "invalid" THEN "throw"
    ELSE IF e.json = "noEnabled" THEN "throw"
    ELSE IF e.json \in {"disabled", "disabledNoConfig"} THEN "continue"
    ELSE IF e.json = "noConfig" THEN "throw"
    ELSE IF ~e.exports THEN "throw"
    ELSE "push"

\* discoverPlugins from entry k on, this.plugins being acc: the plugins are
\* pushed one by one, so an error leaves the ones pushed before it.
RECURSIVE discoverPlugins(_, _, _, _)
discoverPlugins(dirs, k, acc, d) ==
    IF k > Len(dirs) THEN [threw |-> FALSE, plugins |-> acc]
    ELSE LET does == discoverEntry(dirs[k])
         IN  IF does = "throw" THEN [threw |-> TRUE, plugins |-> acc]
             ELSE IF does = "continue" THEN discoverPlugins(dirs, k + 1, acc, d)
             ELSE discoverPlugins(dirs, k + 1,
                    Append(acc, [pluginName |-> dirs[k].name,
                                 width |-> d.width, height |-> d.height]), d)

\* The chain of lines 45-51 rejects: nothing catches it, devicesIdentified
\* stays pending, and the runtime decides whether the process goes on.
Constructor_Rejects ==
    /\ boot' = [boot EXCEPT !.ctor = "rejected"]
    /\ proc' \in UnhandledOutcomes

\* getDevice(1) of line 55 settles: the device is stored and getModel of
\* line 60 is called; or no device comes back, or the call throws.
Identify_GotDevice ==
    /\ proc = "running" /\ boot.ctor = "getDevice"
    /\ \/ /\ device' = [DeviceInit EXCEPT !.width = 0, !.height = 0]
          /\ boot' = [boot EXCEPT !.ctor = "getModel"]
          /\ UNCHANGED proc
       \/ /\ Constructor_Rejects
          /\ UNCHANGED device
    /\ UNCHANGED << loopVars, plugins, pubVars, render, budget, hist >>

\* getModel of line 60 returns: lines 61-63, then discoverPlugins, then
\* markDeviceAsIdentified; or one of them throws.
Identify_GotModel ==
    /\ proc = "running" /\ boot.ctor = "getModel"
    /\ \/ \E model \in Models :
            LET d == [device EXCEPT
                        !.width = IF isRotated(model) THEN model.height ELSE model.width,
                        !.height = IF isRotated(model) THEN model.width ELSE model.height]
                found == discoverPlugins(boot.dirs, 1, plugins, d)
            IN  /\ device' = d
                /\ plugins' = found.plugins
                /\ hist' = [hist EXCEPT !.model = model]
                /\ IF found.threw THEN Constructor_Rejects
                   ELSE /\ boot' = [boot EXCEPT !.ctor = "done", !.resolved = TRUE]
                        /\ UNCHANGED proc
       \/ /\ Constructor_Rejects
          /\ UNCHANGED << device, plugins, hist >>
    /\ UNCHANGED << now, srv, dev, running, main, wfr, callbacks, handlers, orphans >>
    /\ UNCHANGED << pubVars, render, budget >>

\* start() from plugin k on, lines 173-179: the next onStart() is called, or,
\* the plugins exhausted, startDeviceSynchronizedLoop().
nextOnStart(b, k) ==
    IF k <= Len(plugins)
    THEN [b EXCEPT !.pc = "onStart", !.i = k, !.started = Append(@, k)]
    ELSE [b EXCEPT !.pc = "loop", !.i = 0]

\* devicesIdentified resolves: start() goes on from line 170.
Start_Identified ==
    /\ proc = "running" /\ boot.pc = "awaiting" /\ boot.resolved
    /\ boot' = nextOnStart(boot, 1)
    /\ UNCHANGED << loopVars, device, plugins, pubVars, render, budget, hist >>

\* plugin.onStart() of line 174 returns.
Start_OnStartReturns ==
    /\ proc = "running" /\ boot.pc = "onStart"
    /\ boot' = nextOnStart(boot, boot.i + 1)
    /\ UNCHANGED << loopVars, device, plugins, pubVars, render, budget, hist >>

\* plugin.onStart() of line 174 throws: start() rejects to its caller.
Start_OnStartThrows ==
    /\ proc = "running" /\ boot.pc = "onStart"
    /\ boot' = [boot EXCEPT !.pc = "rejected"]
    /\ UNCHANGED << loopVars, device, plugins, pubVars, render, budget, hist >>

\* A second call of start(), made while the loop runs, from plugin k on
\* (lines 173-179). At line 179 startDeviceSynchronizedLoop() finds
\* this.running set and throws (lines 260-262): being async it returns a
\* rejected promise, which start() neither awaits nor returns, so start()
\* resolves and the rejection is left to the runtime.
nextOnStartAgain(k) ==
    IF k <= Len(plugins)
    THEN /\ boot' = [boot EXCEPT !.again = "onStart", !.againI = k]
         /\ UNCHANGED proc
    ELSE /\ running
         /\ boot' = [boot EXCEPT !.again = "resolved", !.againI = 0, !.refused = TRUE]
         /\ proc' \in UnhandledOutcomes

\* start() is called again while the loop runs: devicesIdentified is
\* resolved, so the call goes on to the first onStart().
Start_CalledAgain ==
    /\ proc = "running" /\ running /\ boot.again = "none"
    /\ nextOnStartAgain(1)
    /\ UNCHANGED << now, srv, dev, running, main, wfr, callbacks, handlers, orphans >>
    /\ UNCHANGED << device, plugins, pubVars, render, budget, hist >>

\* plugin.onStart() of line 174 returns to the second call of start().
Start_AgainOnStartReturns ==
    /\ proc = "running" /\ boot.again = "onStart"
    /\ nextOnStartAgain(boot.againI + 1)
    /\ UNCHANGED << now, srv, dev, running, main, wfr, callbacks, handlers, orphans >>
    /\ UNCHANGED << device, plugins, pubVars, render, budget, hist >>

\* plugin.onStart() of line 174 throws in the second call of start().
Start_AgainOnStartThrows ==
    /\ proc = "running" /\ boot.again = "onStart"
    /\ boot' = [boot EXCEPT !.again = "rejected"]
    /\ UNCHANGED << loopVars, device, plugins, pubVars, render, budget, hist >>

----------------------------------------------------------------------------
\* Initial states. Each specification starts one part of the program and
\* leaves the others at rest.

LoopAtRest ==
    /\ now = 0
    /\ srv = [refresh_rate |-> oneMinute, updated_at |-> 0]
    /\ dev = [nextWake |-> oneMinute, rate |-> oneMinute]
    /\ proc = "running"
    /\ main = MainInit
    /\ wfr = [r \in Runs |-> WfrInit]
    /\ callbacks = {} /\ handlers = {} /\ orphans = {}

\* The registry has loaded the plugins ps and start() has reached line 179.
Booted(ps) ==
    /\ device = DeviceInit
    /\ plugins = ps
    /\ boot = BootDone

PublisherAtRest ==
    /\ screens = {} /\ playlist = {} /\ nextId = 1
    /\ cycles = [c \in Cycles |-> Idle]
    /\ coord = "loop"

----------------------------------------------------------------------------
\* The coordinator with its device, from the call of startDeviceSynchronizedLoop.

LoopInit ==
    /\ now \in {StartOffset, StartOffset + 40}
    /\ \E rate \in RefreshRates :
         /\ srv = [refresh_rate |-> rate, updated_at |-> 0]
         /\ dev = [nextWake |-> rate, rate |-> rate]
    /\ proc = "running"
    /\ running = FALSE
    /\ main = MainInit
    /\ wfr = [r \in Runs |-> WfrInit]
    /\ callbacks = {} /\ handlers = {} /\ orphans = {}
    /\ budget = MaxDisturbances
    /\ hist = HistInit
    /\ Booted(<< >>)
    /\ PublisherAtRest
    /\ render = RenderIdle

LoopNext ==
    \/ StartLoop
    \/ Wait_GotDevice
    \/ Loop_Throws
    \/ Wait_TempRateSet
    \/ \E r \in Runs : Interval_Fires(r)
    \/ \E cb \in callbacks : Callback_Throws(cb)
    \/ \E cb \in callbacks : Callback_GotDevice(cb)
    \/ \E cb \in callbacks : Callback_Slept(cb)
    \/ \E cb \in callbacks : Callback_GotDeviceAgain(cb)
    \/ \E cb \in callbacks : Callback_Restored(cb)
    \/ Loop_Resumed
    \/ Loop_Refreshed
    \/ Loop_Top
    \/ Loop_Predicts
    \/ Loop_Triggers
    \/ Loop_Verifies
    \/ Loop_Verified
    \/ SigInt
    \/ \E h \in handlers : OnSigInt_Exits(h)
    \/ \E h \in handlers : OnSigInt_Throws(h)
    \/ \E req \in orphans : Orphan_Arrives(req)
    \/ Device_Refreshes
    \/ Device_Misses
    \/ Tick

SpecLoop == LoopInit /\ [][LoopNext]_vars

\* The same coordinator with a server that may leave a request unanswered.

\* The calls the loop's frame awaits: getDevice (lines 201, 276, 292) and
\* updateDevice (line 225).
AwaitsCall(m) == m.pc \in {"w201", "w225", "l276", "l292"}

\* The server never answers the call the loop's frame awaits. The client is
\* created without a timeout (initializeTerminus), so the await never
\* settles: the frame has no instant to wake at.
Call_Hangs ==
    /\ proc = "running" /\ AwaitsCall(main) /\ main.wake # None
    /\ budget > 0
    /\ budget' = budget - 1
    /\ main' = [main EXCEPT !.wake = None]
    /\ UNCHANGED << now, srv, dev, proc, running, wfr, callbacks, handlers, orphans, hist >>
    /\ UNCHANGED << bootVars, pubVars, render >>

\* The server never answers the updateDevice of line 207: onSigInt stays at
\* its await and never reaches process.exit().
OnSigInt_Hangs(h) ==
    /\ proc = "running" /\ h \in handlers /\ h.wake # None
    /\ budget > 0
    /\ budget' = budget - 1
    /\ handlers' = (handlers \ {h}) \cup {[h EXCEPT !.wake = None]}
    /\ UNCHANGED << now, srv, dev, proc, running, main, wfr, callbacks, orphans, hist >>
    /\ UNCHANGED << bootVars, pubVars, render >>

HangNext ==
    \/ LoopNext
    \/ Call_Hangs
    \/ \E h \in handlers : OnSigInt_Hangs(h)

SpecHang ==
    LoopInit /\ [][HangNext]_vars

\* The same coordinator with a device whose refresh rate is below one minute.
LowRefreshRates == {30}

LowRateInit ==
    /\ now = StartOffset
    /\ \E rate \in LowRefreshRates :
         /\ srv = [refresh_rate |-> rate, updated_at |-> 0]
         /\ dev = [nextWake |-> rate, rate |-> rate]
    /\ proc = "running"
    /\ running = FALSE
    /\ main = MainInit
    /\ wfr = [r \in Runs |-> WfrInit]
    /\ callbacks = {} /\ handlers = {} /\ orphans = {}
    /\ budget = MaxDisturbances
    /\ hist = HistInit
    /\ Booted(<< >>)
    /\ PublisherAtRest
    /\ render = RenderIdle

SpecLowRate ==
    LowRateInit /\ [][LoopNext]_vars

----------------------------------------------------------------------------
\* The interval-polling loop: startDeviceSynchronizedLoop as it polls every
\* ten minutes and predicts from the last observed updated_at.

\* The frame of that loop. lastDeviceUpdateTime is 0 until the first poll.
PollInit ==
    [pc |-> "start", wake |-> None, ok |-> TRUE,
     expectingDeviceRefreshOnNextCheck |-> FALSE, lastDeviceUpdateTime |-> 0,
     deviceUpdatedAt |-> 0, deviceShouldUpdateAt |-> 0]

\* The loop is called: the guard of this.running, then the first getDevice(1).
Poll_Start ==
    /\ proc = "running" /\ main.pc = "start" /\ ~running
    /\ running' = TRUE
    /\ \E d \in Latencies, ok \in Outcomes :
         /\ main' = [main EXCEPT !.pc = "p203", !.wake = now + d, !.ok = ok]
         /\ Affordable(d, ok) /\ budget' = Spend(d, ok)
    /\ UNCHANGED << now, srv, dev, proc, wfr, callbacks, handlers, orphans, hist >>
    /\ UNCHANGED << bootVars, pubVars, render >>

\* getDevice(1) throws: the loop rejects and nothing handles it.
Poll_Throws ==
    /\ proc = "running" /\ main.pc = "p203" /\ Due(main) /\ ~main.ok
    /\ main' = [main EXCEPT !.pc = "dead", !.wake = None]
    /\ Rejects(main', callbacks, handlers, wfr)
    /\ UNCHANGED << now, srv, dev, running, wfr, callbacks, handlers, budget, hist >>
    /\ UNCHANGED << bootVars, pubVars, render >>

\* The test of the prediction branch: the refresh is expected between one
\* and eleven minutes from now.
refreshApproaching(deviceShouldUpdateAt) ==
    /\ now + CHECK_OFFSET <= deviceShouldUpdateAt
    /\ deviceShouldUpdateAt <= now + CHECK_INTERVAL + CHECK_OFFSET

\* getDevice(1) returns: one iteration of the loop up to its sleep. History:
\* hist.trigAt and hist.triggers record the calls of refreshAllPlugins(),
\* hist.trigP the predicted instant of the last call made by the prediction
\* branch.
Poll_GotDevice ==
    /\ proc = "running" /\ main.pc = "p203" /\ Due(main) /\ main.ok
    /\ LET lastDeviceUpdateTime ==
               IF main.lastDeviceUpdateTime = 0 THEN srv.updated_at
               ELSE main.lastDeviceUpdateTime
           deviceUpdatedAt == srv.updated_at
           deviceShouldUpdateAt == deviceUpdatedAt + srv.refresh_rate
           polled == [main EXCEPT !.lastDeviceUpdateTime = lastDeviceUpdateTime,
                                  !.deviceUpdatedAt = deviceUpdatedAt,
                                  !.deviceShouldUpdateAt = deviceShouldUpdateAt]
       IN  IF srv.refresh_rate < oneMinute
           THEN /\ main' = [polled EXCEPT !.pc = "dead", !.wake = None]
                /\ Rejects(main', callbacks, handlers, wfr)
                /\ UNCHANGED hist
           ELSE /\ UNCHANGED << proc, orphans >>
                /\ IF deviceUpdatedAt # lastDeviceUpdateTime
                   THEN /\ main' = [polled EXCEPT
                                      !.pc = "s236", !.wake = sleep(CHECK_INTERVAL),
                                      !.expectingDeviceRefreshOnNextCheck = FALSE]
                        /\ hist' = IF main.expectingDeviceRefreshOnNextCheck THEN hist
                                   ELSE [hist EXCEPT !.trigAt = now, !.triggers = @ + 1]
                   ELSE IF refreshApproaching(deviceShouldUpdateAt)
                   THEN /\ main' = [polled EXCEPT
                                      !.pc = "s248",
                                      !.wake = sleep(deviceShouldUpdateAt - now + oneMinute)]
                        /\ hist' = [hist EXCEPT !.trigAt = now, !.triggers = @ + 1,
                                                !.trigP = deviceShouldUpdateAt]
                   ELSE /\ main' = [polled EXCEPT !.pc = "s252",
                                                  !.wake = sleep(CHECK_INTERVAL)]
                        /\ UNCHANGED hist
    /\ UNCHANGED << now, srv, dev, running, wfr, callbacks, handlers, budget >>
    /\ UNCHANGED << bootVars, pubVars, render >>

\* The sleep that ends an iteration is over: after the sleep of the
\* prediction branch the flag is set; then the next poll is made.
Poll_Slept ==
    /\ proc = "running" /\ main.pc \in {"s236", "s248", "s252"} /\ Due(main)
    /\ \E d \in Latencies, ok \in Outcomes :
         /\ main' = [main EXCEPT
                       !.pc = "p203", !.wake = now + d, !.ok = ok,
                       !.expectingDeviceRefreshOnNextCheck = @ \/ main.pc = "s248"]
         /\ Affordable(d, ok) /\ budget' = Spend(d, ok)
    /\ UNCHANGED << now, srv, dev, proc, running, wfr, callbacks, handlers, orphans, hist >>
    /\ UNCHANGED << bootVars, pubVars, render >>

\* Nothing is due now: the clock moves to the next instant something is.
Poll_Tick ==
    /\ proc = "running"
    /\ \A t \in Deadlines : t > now
    /\ Min(Deadlines) <= MaxPollTime
    /\ now' = Min(Deadlines)
    /\ UNCHANGED << srv, dev, proc, running, main, wfr, callbacks, handlers, orphans, budget, hist >>
    /\ UNCHANGED << bootVars, pubVars, render >>

\* The device last refreshed at StartOffset; the loop is called then or later.
PollLoopInit ==
    /\ now \in {StartOffset, StartOffset + 40}
    /\ \E rate \in LongRefreshRates :
         /\ srv = [refresh_rate |-> rate, updated_at |-> StartOffset]
         /\ dev = [nextWake |-> StartOffset + rate, rate |-> rate]
    /\ proc = "running"
    /\ running = FALSE
    /\ main = PollInit
    /\ wfr = [r \in Runs |-> WfrInit]
    /\ callbacks = {} /\ handlers = {} /\ orphans = {}
    /\ budget = MaxDisturbances
    /\ hist = HistInit
    /\ Booted(<< >>)
    /\ PublisherAtRest
    /\ render = RenderIdle

PollNext ==
    \/ Poll_Start
    \/ Poll_Throws
    \/ Poll_GotDevice
    \/ Poll_Slept
    \/ Device_Refreshes
    \/ Device_Misses
    \/ Poll_Tick

SpecPoll ==
    PollLoopInit /\ [][PollNext]_vars

----------------------------------------------------------------------------
\* One renderToBase64(), for every draw() and canvas.

RenderInit ==
    /\ running = FALSE
    /\ \E draw \in {Returns} \cup Thrown, canvas \in Canvases :
         render = [pc |-> "called", draw |-> draw, width |-> canvas[1],
                   height |-> canvas[2], outcome |-> [status |-> "pending"]]
    /\ LoopAtRest
    /\ budget = 0
    /\ hist = HistInit
    /\ Booted(<< >>)
    /\ PublisherAtRest

RenderNext ==
    \/ Render_Called
    \/ Render_DrawReturns
    \/ Render_DrawThrows

SpecRender == RenderInit /\ [][RenderNext]_vars

----------------------------------------------------------------------------
\* The publisher under the cycles the coordinator starts. A cycle lasts as
\* long as its renders and its network calls last (the client sets no
\* timeout), so the cycle of line 287, which nothing awaits, may still be
\* running when the coordinator starts the next one.

PluginA == [pluginName |-> << "a" >>, width |-> 800, height |-> 480]

PluginB == [pluginName |-> << "b" >>, width |-> 800, height |-> 480]

PluginLists == {<< PluginA >>, << PluginA, PluginB >>}

\* The server's screens before the program starts: none, or one a previous
\* run of the program has left.
Leftovers == {{}, {[id |-> 1, name |-> << "a", "_", "D", "_", "0" >>, img |-> "content"]}}

\* The server's screens once the first cycle (line 271) has published every
\* plugin of ps: the i-th call of addScreen made screen i.
FirstCycle(ps) ==
    {[id |-> i, name |-> screenPrefix(ps[i]) \o << "_", "0" >>, img |-> "content"] :
       i \in 1..Len(ps)}

\* The coordinator is about to make its first call of refreshAllPlugins
\* (line 271).
PublishInit ==
    /\ LoopAtRest
    /\ running = TRUE
    /\ \E ps \in PluginLists :
         /\ Booted(ps)
         /\ hist = [HistInit EXCEPT
                      !.pub = [i \in 1..Len(ps) |-> [calls |-> 0, one |-> FALSE]]]
    /\ screens \in Leftovers
    /\ playlist = {x.id : x \in screens}
    /\ nextId = Cardinality(screens) + 1
    /\ cycles = [c \in Cycles |-> Idle]
    /\ coord = "start"
    /\ render = RenderIdle
    /\ budget = MaxThrows

PublishNext ==
    \/ \E c \in Cycles : Coordinator_FirstRefresh(c)
    \/ \E c \in Cycles : Coordinator_Triggers(c)
    \/ \E c \in Cycles : Coordinator_Recovers(c)
    \/ \E c \in Cycles : Publish_Rendered(c)
    \/ \E c \in Cycles : Publish_GotScreens(c)
    \/ \E c \in Cycles : Publish_Removed(c)
    \/ \E c \in Cycles : Publish_Added(c)
    \/ \E c \in Cycles : Publish_Attached(c)
    \/ \E c \in Cycles : Publish_Throws(c)
    \/ \E c \in Cycles : Cycle_Returns(c)

SpecPublish ==
    PublishInit /\ [][PublishNext]_vars

----------------------------------------------------------------------------
\* The publisher in the loop of lines 274-305, the first cycle behind it.

OverlapInit ==
    /\ LoopAtRest
    /\ running = TRUE
    /\ \E ps \in PluginLists :
         /\ Booted(ps)
         /\ hist = [HistInit EXCEPT
                      !.pub = [i \in 1..Len(ps) |-> [calls |-> 0, one |-> FALSE]]]
         /\ screens = FirstCycle(ps)
    /\ playlist = {x.id : x \in screens}
    /\ nextId = Cardinality(screens) + 1
    /\ cycles = [c \in Cycles |-> Idle]
    /\ coord = "loop"
    /\ render = RenderIdle
    /\ budget = MaxThrows

OverlapNext ==
    \/ \E c \in Cycles : Coordinator_Triggers(c)
    \/ \E c \in Cycles : Coordinator_Recovers(c)
    \/ \E c \in Cycles : Publish_Rendered(c)
    \/ \E c \in Cycles : Publish_GotScreens(c)
    \/ \E c \in Cycles : Publish_Removed(c)
    \/ \E c \in Cycles : Publish_Added(c)
    \/ \E c \in Cycles : Publish_Attached(c)
    \/ \E c \in Cycles : Publish_Throws(c)
    \/ \E c \in Cycles : Cycle_Returns(c)

SpecOverlap ==
    OverlapInit /\ [][OverlapNext]_vars

----------------------------------------------------------------------------
\* The publisher with two plugin directories of which one is named after the
\* other's screen prefix: a and a_D, on the device D.

PluginAD == [pluginName |-> << "a", "_", "D" >>, width |-> 800, height |-> 480]

NestedLists == {<< PluginA, PluginAD >>, << PluginAD, PluginA >>}

NestedInit ==
    /\ LoopAtRest
    /\ running = TRUE
    /\ \E ps \in NestedLists :
         /\ Booted(ps)
         /\ hist = [HistInit EXCEPT
                      !.pub = [i \in 1..Len(ps) |-> [calls |-> 0, one |-> FALSE]]]
    /\ screens \in Leftovers
    /\ playlist = {x.id : x \in screens}
    /\ nextId = Cardinality(screens) + 1
    /\ cycles = [c \in Cycles |-> Idle]
    /\ coord = "start"
    /\ render = RenderIdle
    /\ budget = MaxThrows

SpecNested ==
    NestedInit /\ [][PublishNext]_vars

----------------------------------------------------------------------------
\* Startup, from new PluginLoop() and start() to the first cycle.

StartInit ==
    /\ LoopAtRest
    /\ running = FALSE
    /\ device = NoDevice
    /\ plugins = << >>
    /\ \E l \in Listings : boot = [BootInit EXCEPT !.dirs = l]
    /\ screens \in Leftovers
    /\ playlist = {x.id : x \in screens}
    /\ nextId = Cardinality(screens) + 1
    /\ cycles = [c \in Cycles |-> Idle]
    /\ coord = "start"
    /\ render = RenderIdle
    /\ budget = MaxThrows
    /\ hist = [HistInit EXCEPT !.pub = [i \in 1..MaxEntries |-> [calls |-> 0, one |-> FALSE]]]

StartNext ==
    \/ Identify_GotDevice
    \/ Identify_GotModel
    \/ Start_Identified
    \/ Start_OnStartReturns
    \/ Start_OnStartThrows
    \/ Start_CalledAgain
    \/ Start_AgainOnStartReturns
    \/ Start_AgainOnStartThrows
    \/ StartLoop
    \/ \E c \in Cycles : Coordinator_FirstRefresh(c)
    \/ \E c \in Cycles : Publish_Rendered(c)
    \/ \E c \in Cycles : Publish_GotScreens(c)
    \/ \E c \in Cycles : Publish_Removed(c)
    \/ \E c \in Cycles : Publish_Added(c)
    \/ \E c \in Cycles : Publish_Attached(c)
    \/ \E c \in Cycles : Publish_Throws(c)
    \/ \E c \in Cycles : Cycle_Returns(c)

SpecStart ==
    StartInit /\ [][StartNext]_vars

----------------------------------------------------------------------------
\* The constructor's chain alone: identifyDevice, then discoverPlugins.

DiscoverNext ==
    \/ Identify_GotDevice
    \/ Identify_GotModel

SpecDiscover ==
    StartInit /\ [][DiscoverNext]_vars

----------------------------------------------------------------------------
\* CalendarPlugin.drawAllDayEvents(events), taken alone: the packing of the
\* all-day events into lines. An event is an object (id stands for its
\* reference) with a start and an end, counted in days; the list is in the
\* order getWeekEvents() returned it.

MaxEvents == 3

MaxDay == 3

eventHeight == 38

Days == 0..MaxDay

AllDayEvents(n) ==
    {[id |-> n, start |-> p[1], end |-> p[2]] : p \in {q \in Days \X Days : q[1] <= q[2]}}

RECURSIVE EventLists(_)
EventLists(n) ==
    IF n = 0 THEN {<< >>}
    ELSE {l \o << evt >> : l \in EventLists(n - 1), evt \in AllDayEvents(n)}

checkOverlap(a, b) == ~(a[1] >= b[2] \/ a[2] <= b[1])

\* Array.prototype.sort with (a, b) => +a.start - +b.start: stable.
RECURSIVE sortByStart(_)
sortByStart(events) ==
    IF events = << >> THEN << >>
    ELSE LET sorted == sortByStart(SubSeq(events, 1, Len(events) - 1))
             evt    == events[Len(events)]
             k      == Cardinality({i \in 1..Len(sorted) : sorted[i].start <= evt.start})
         IN  SubSeq(sorted, 1, k) \o << evt >> \o SubSeq(sorted, k + 1, Len(sorted))

\* array.splice(j, 1), with j counted from 1.
splice(array, j) == SubSeq(array, 1, j - 1) \o SubSeq(array, j + 1, Len(array))

\* line.splice(j, 1); j--;  without the step back.
spliceOther_noStepBack(line, j) == [line |-> splice(line, j), j |-> j]

\* line.splice(j, 1); j--;
spliceOther(line, j) == [line |-> splice(line, j), j |-> j - 1]

\* for (let j = ...; j < line.length; j++), from j on, for evt = line[i].
RECURSIVE forOther(_, _, _)
forOther(line, i, j) ==
    IF j > Len(line) THEN line
    ELSE IF checkOverlap(<< line[i].start, line[i].end >>, << line[j].start, line[j].end >>)
         THEN LET s == spliceOther(line, j) IN forOther(s.line, i, s.j + 1)
         ELSE forOther(line, i, j + 1)

\* for (let i = ...; i < line.length; i++), from i on.
RECURSIVE forEvt(_, _)
forEvt(line, i) ==
    IF i > Len(line) THEN line
    ELSE forEvt(forOther(line, i, i + 1), i + 1)

\* array.indexOf(evt), counted from 1; 0 stands for -1.
indexOf(array, evt) ==
    IF \E i \in 1..Len(array) : array[i] = evt
    THEN CHOOSE i \in 1..Len(array) :
           /\ array[i] = evt
           /\ \A k \in 1..(i - 1) : array[k] # evt
    ELSE 0

\* for (const evt of line) { remainingEvents.splice(indexOf(evt), 1) }, from the n-th evt on.
RECURSIVE removeLine(_, _, _)
removeLine(remainingEvents, line, n) ==
    IF n > Len(line) THEN remainingEvents
    ELSE LET idx == indexOf(remainingEvents, line[n])
         IN  removeLine(IF idx # 0 THEN splice(remainingEvents, idx) ELSE remainingEvents,
                        line, n + 1)

PackInit ==
    /\ running = FALSE
    /\ \E n \in 0..MaxEvents : \E events \in EventLists(n) :
         render = [pc |-> "called", events |-> events, remainingEvents |-> << >>,
                   lines |-> << >>, returned |-> None]
    /\ LoopAtRest
    /\ budget = 0
    /\ hist = HistInit
    /\ Booted(<< >>)
    /\ PublisherAtRest

PackRest ==
    UNCHANGED << now, srv, dev, proc, running, main, wfr, callbacks, handlers, orphans,
                 device, plugins, boot, screens, playlist, nextId, cycles, coord,
                 budget, hist >>

\* if (!events.length) return 0;
DrawAllDayEvents_Empty ==
    /\ render.pc = "called"
    /\ Len(render.events) = 0
    /\ render' = [render EXCEPT !.pc = "returned", !.returned = 0]
    /\ PackRest

\* const remainingEvents = events.slice(); remainingEvents.sort(...)
DrawAllDayEvents_Sorts ==
    /\ render.pc = "called"
    /\ Len(render.events) # 0
    /\ render' = [render EXCEPT !.pc = "while",
                                !.remainingEvents = sortByStart(render.events)]
    /\ PackRest

\* One turn of while (remainingEvents.length).
DrawAllDayEvents_Line ==
    /\ render.pc = "while"
    /\ Len(render.remainingEvents) # 0
    /\ LET line == forEvt(render.remainingEvents, 1)
       IN  render' = [render EXCEPT
                        !.remainingEvents = removeLine(render.remainingEvents, line, 1),
                        !.lines = Append(render.lines, line)]
    /\ PackRest

\* The loop is left, the lines are drawn: return lines.length * eventHeight.
DrawAllDayEvents_Draws ==
    /\ render.pc = "while"
    /\ Len(render.remainingEvents) = 0
    /\ render' = [render EXCEPT !.pc = "returned",
                                !.returned = Len(render.lines) * eventHeight]
    /\ PackRest

PackNext ==
    \/ DrawAllDayEvents_Empty
    \/ DrawAllDayEvents_Sorts
    \/ DrawAllDayEvents_Line
    \/ DrawAllDayEvents_Draws

SpecPack == PackInit /\ [][PackNext]_vars

----------------------------------------------------------------------------
\* GoogleCalendarService.getWeekEvents(), taken alone, on an initialized
\* client. Every configured calendar answers events.list() with its items
\* ordered by start time (orderBy: "startTime"), or the call fails. A
\* calendar's id is its place in calendarIds; an item is its start day.

MaxCalendars == 2

MaxItems == 2

ItemLists ==
    UNION {{l \in [1..n -> Days] : \A i \in 1..(n - 1) : l[i] <= l[i + 1]} : n \in 0..MaxItems}

Responses ==
    {[ok |-> FALSE, items |-> << >>]} \cup {[ok |-> TRUE, items |-> l] : l \in ItemLists}

CalendarAnswers == UNION {[1..n -> Responses] : n \in 1..MaxCalendars}

transformEvent(items, n, calendarId) ==
    [id |-> << calendarId, n >>, calendarId |-> calendarId, start |-> items[n]]

\* The result of a numeric conversion: a number, or NaN.
NaN == [nan |-> TRUE, value |-> 0]

\* +a for a CalendarEvent a: the object has no numeric value.
unaryPlus(a) == NaN

minus(x, y) ==
    IF x.nan \/ y.nan THEN NaN ELSE [nan |-> FALSE, value |-> x.value - y.value]

\* (a, b) => +a - +b
comparefn(a, b) == minus(unaryPlus(a), unaryPlus(b))

\* Array.prototype.sort reads a comparator's NaN as +0.
SortCompare(a, b) ==
    LET v == comparefn(a, b) IN IF v.nan THEN 0 ELSE v.value

\* Array.prototype.sort(comparefn): stable.
RECURSIVE sort(_)
sort(array) ==
    IF array = << >> THEN << >>
    ELSE LET sorted == sort(SubSeq(array, 1, Len(array) - 1))
             evt    == array[Len(array)]
             after  == {i \in 1..Len(sorted) : SortCompare(sorted[i], evt) <= 0}
             k      == IF after = {} THEN 0 ELSE CHOOSE i \in after : \A m \in after : m <= i
         IN  SubSeq(sorted, 1, k) \o << evt >> \o SubSeq(sorted, k + 1, Len(sorted))

WeekInit ==
    /\ running = FALSE
    /\ \E answers \in CalendarAnswers :
         render = [pc |-> "for", answers |-> answers, calendarId |-> 1,
                   allEvents |-> << >>, returned |-> << >>]
    /\ LoopAtRest
    /\ budget = 0
    /\ hist = HistInit
    /\ Booted(<< >>)
    /\ PublisherAtRest

\* events.list() of the next calendar succeeds: its items are transformed and pushed.
GetWeekEvents_Fetched ==
    /\ render.pc = "for"
    /\ render.calendarId <= Len(render.answers)
    /\ render.answers[render.calendarId].ok
    /\ LET items  == render.answers[render.calendarId].items
           events == [n \in 1..Len(items) |-> transformEvent(items, n, render.calendarId)]
       IN  render' = [render EXCEPT !.allEvents = render.allEvents \o events,
                                    !.calendarId = render.calendarId + 1]
    /\ PackRest

\* events.list() of the next calendar fails: a warning, and the loop continues.
GetWeekEvents_FetchFails ==
    /\ render.pc = "for"
    /\ render.calendarId <= Len(render.answers)
    /\ ~render.answers[render.calendarId].ok
    /\ render' = [render EXCEPT !.calendarId = render.calendarId + 1]
    /\ PackRest

\* Past the last calendar: allEvents.sort(...) is returned.
GetWeekEvents_Sorts ==
    /\ render.pc = "for"
    /\ render.calendarId > Len(render.answers)
    /\ render' = [render EXCEPT !.pc = "returned", !.returned = sort(render.allEvents)]
    /\ PackRest

WeekNext ==
    \/ GetWeekEvents_Fetched
    \/ GetWeekEvents_FetchFails
    \/ GetWeekEvents_Sorts

SpecWeek == WeekInit /\ [][WeekNext]_vars

----------------------------------------------------------------------------
\* The claims.

\* C1: every steady-state trigger (line 287) for the predicted refresh
\* instant P happens at a time t with P - 2 * oneMinute <= t <= P - oneMinute,
\* for every refresh rate of at least 60 s.
C1_TriggerWindow ==
    hist.trigAt # None =>
      /\ hist.trigP - 2 * oneMinute <= hist.trigAt
      /\ hist.trigAt <= hist.trigP - oneMinute

\* C2: after a verification poll that found updated_at unchanged the
\* coordinator is in the recovery procedure (or has ended), and makes no
\* prediction and no steady-state trigger, until a poll shows a different
\* updated_at.
C2_UnchangedMeansRecovery ==
    hist.awaitingChange => main.pc \in {"w201", "w225", "w227", "dead"}

\* C2, its case: the verification poll after a trigger found updated_at
\* unchanged and the coordinator waits in waitForDeviceRefresh.
C2_Witness ==
    hist.awaitingChange /\ hist.triggers >= 1 /\ main.pc = "w227"

\* C3: a run of waitForDeviceRefresh that has set the temporary rate is
\* restored at most once, and exactly once when the run resolves or the
\* process ends.
C3_ExactlyOneRestore ==
    \A r \in Runs :
      wfr[r].tempSet =>
        /\ wfr[r].restored <= 1
        /\ (wfr[r].resolved \/ proc \in {"exited", "killed"}) => wfr[r].restored = 1

\* C4: the process never ends with a temporary rate that no restoring
\* updateDevice has followed.
C4_NoExitAtTempRate ==
    proc # "running" => \A r \in Runs : wfr[r].tempSet => wfr[r].restored >= 1

C6_PublishIdempotent ==
    \A i \in 1..Len(plugins) : hist.pub[i].calls = 2 => hist.pub[i].one

\* C6, its case: a second successful call has returned, with a screen of the
\* first call to replace.
C6_Witness ==
    \E i \in 1..Len(plugins) :
      /\ hist.pub[i].calls = 2
      /\ \E x \in screens : StartsWith(x.name, screenPrefix(plugins[i]))

\* C7: renderToBase64 always resolves, whatever draw throws.
C7_RenderNeverRejects ==
    render.pc = "settled" => render.outcome.status = "resolved"

\* C8: no error escapes refreshAllPlugins, and a cycle that has gone through
\* its list has attempted every plugin exactly once, in list order, whatever
\* failed on the way.
C8_CycleIsolatesFailures ==
    \A c \in Cycles :
      /\ cycles[c].pc \notin {"raised", "rejected"}
      /\ cycles[c].pc \in {"done", "returned"} =>
           cycles[c].attempted = [i \in 1..Len(plugins) |-> i]

\* C8, its case: a cycle over two plugins has returned after one of them
\* failed.
C8_Witness ==
    \E c \in Cycles :
      cycles[c].pc = "returned" /\ cycles[c].failed /\ Len(plugins) = 2

\* A directory of the plugin root, other than example, without config.json
\* or without index.ts.
Malformed(e) ==
    e.isDirectory /\ e.name # << "example" >> /\ (~e.config \/ ~e.index)

\* C9: with a malformed directory in the plugin root no onStart is invoked,
\* the loop does not start and no render is invoked.
C9_MalformedAbortsStartup ==
    (\E k \in 1..Len(boot.dirs) : Malformed(boot.dirs[k])) =>
      /\ boot.started = << >>
      /\ ~running
      /\ \A c \in Cycles : cycles[c].pc = "idle"

\* C9, its case: discovery has thrown at a malformed directory after it had
\* pushed a valid plugin.
C9_Witness ==
    /\ \E k \in 1..Len(boot.dirs) : Malformed(boot.dirs[k])
    /\ boot.ctor = "rejected"
    /\ plugins # << >>

\* C10: a getDevice of the loop (line 276 or 292) that throws does not end
\* the loop.
C10_PollFailureSurvived ==
    hist.pollFailed => main.pc # "dead"

\* C11: once a poll has returned a refresh rate below 60 s the coordinator
\* has rejected it: it has ended with an error, without a prediction, a
\* sleep, a trigger or a write of the device's refresh rate.
C11_LowRateRejected ==
    /\ \A r \in Runs :
         (0 < wfr[r].initialRefreshRate /\ wfr[r].initialRefreshRate < oneMinute) =>
           main.pc = "dead" /\ ~wfr[r].tempSet
    /\ main.pc \in {"s284", "s289", "l292"} =>
         main.deviceShouldUpdateAt - main.deviceUpdatedAt >= oneMinute

\* C12: after a verification poll that showed updated_at advanced to T1 the
\* coordinator enters no recovery, its next prediction is T1 + refresh_rate
\* and its next trigger comes at T1 + refresh_rate - 60 s.
C12_SteadyStatePrediction ==
    hist.seenT1 # None =>
      /\ main.pc \in {"l276", "s284", "s289", "l292", "dead"}
      /\ main.pc \in {"s284", "s289"} =>
           main.deviceShouldUpdateAt = hist.seenT1 + hist.seenRate
      /\ main.pc = "s289" =>
           hist.trigAt = hist.seenT1 + hist.seenRate - oneMinute

\* C13: a start() that starts the loop while one is active fails: the
\* 'already running' error of line 261 reaches its caller.
C13_SecondStartFails ==
    boot.refused => boot.again = "rejected"

\* C14: no two executions of refreshScreenForPlugin for the same plugin are
\* in progress at once.
C14_OneRenderPerPlugin ==
    \A c1, c2 \in Cycles :
      (c1 # c2 /\ InCall(cycles[c1]) /\ InCall(cycles[c2])) =>
        cycles[c1].idx # cycles[c2].idx

\* C15: start() gets through its plugins whatever their onStart does: once
\* start() has settled, the onStart of every plugin has been invoked, in
\* discovery order, and startDeviceSynchronizedLoop() has been called.
C15_OnStartFailureTolerated ==
    boot.pc \in {"loop", "rejected"} =>
      /\ boot.pc = "loop"
      /\ boot.started = [i \in 1..Len(plugins) |-> i]

\* C16: no network call blocks the coordinator forever: every call the
\* loop's frame awaits has an instant at which it returns or fails, after
\* which the frame goes on to its next poll.
C16_NoCallBlocksForever ==
    (proc = "running" /\ AwaitsCall(main)) => main.wake # None

\* A plugin directory with both files whose config.json parses and lacks
\* the enabled key or the config key.
LacksKey(e) ==
    /\ e.isDirectory /\ e.name # << "example" >> /\ e.config /\ e.index
    /\ e.json \in {"noEnabled", "noConfig", "disabledNoConfig"}

\* C17: with a config.json that lacks enabled or config, whatever the other
\* key holds, discovery does not complete: startup aborts with an error.
C17_MissingKeyAborts ==
    (\E k \in 1..Len(boot.dirs) : LacksKey(boot.dirs[k])) => boot.ctor # "done"

\* C18: a fatal failure of startup validation ends startup with an error:
\* once the constructor's chain has failed the process has ended with an
\* error, and start() is not left pending in a process that runs on.
C18_StartupFailureExits ==
    boot.ctor = "rejected" => proc = "crashed"

\* C19: while the coordinator waits for the device's timestamp to change
\* after a missed refresh, it has called refreshAllPlugins() since the
\* verification poll that found the miss.
C19_RenderBeforeWaiting ==
    (main.ctx = "recover" /\ main.pc \in {"w201", "w225", "w227"}) =>
      hist.refreshedSincePoll

C21_ResolvesInWindow ==
    main.pc = "resumed" =>
      /\ main.nextRefreshTime = dev.nextWake
      /\ now + NearRefresh <= main.nextRefreshTime
      /\ main.nextRefreshTime <= now + oneMinute

\* C22: a draw() that throws does not cost the plugin its screen: in a cycle
\* that runs alone and in which no screen-management call has thrown, no
\* refreshScreenForPlugin fails, so each call goes on to upload and attach
\* the image renderToBase64 resolved with, the error image included.
C22_DrawFailurePublished ==
    \A c \in Cycles :
      (budget = MaxThrows /\ \A o \in Cycles \ {c} : cycles[o].pc = "idle") =>
        /\ ~cycles[c].failed
        /\ cycles[c].pc = "attach" =>
             \E x \in screens :
               /\ x.id = cycles[c].newId /\ x.img \in {"content", "error"}
               /\ StartsWith(x.name, screenPrefix(plugins[cycles[c].idx]))

\* C23: once the first cycle has published every plugin, the server holds at
\* every moment at least one screen of each plugin, during a republish and
\* after a publish that failed partway.
C23_AlwaysAScreen ==
    \A i \in 1..Len(plugins) :
      \E x \in screens : StartsWith(x.name, screenPrefix(plugins[i]))

\* A screen whose name is the one line 152 builds for the plugin: its prefix,
\* an underscore and a base-36 timestamp, which holds no underscore.
createdFor(screen, plugin) ==
    LET p == screenPrefix(plugin) \o << "_" >>
    IN  /\ StartsWith(screen.name, p)
        /\ Len(screen.name) > Len(p)
        /\ \A k \in (Len(p) + 1)..Len(screen.name) : screen.name[k] # "_"

\* C24: refreshScreenForPlugin(P) calls removeScreen for no screen that was
\* created for another plugin Q, whatever the two directory names.
C24_RemovesOwnScreensOnly ==
    \A c \in Cycles :
      cycles[c].pc = "removeScreen" =>
        \A q \in 1..Len(plugins) :
          q # cycles[c].idx => ~createdFor(cycles[c].list[cycles[c].pos], plugins[q])

\* C25: a device that refreshes at the predicted instant is not classified
\* as disconnected: the coordinator is never in the recovery procedure with
\* the device's updated_at at the instant it had predicted.
C25_PunctualDeviceNotDisconnected ==
    (main.ctx = "recover" /\ main.pc \in {"w201", "w225", "w227"}) =>
      srv.updated_at # main.deviceShouldUpdateAt

\* C26: in the interval-polling loop, after every poll the last observed
\* timestamp is the updated_at that poll returned: a poll that shows a
\* different updated_at makes it the last observed one.
C26_LastObservedFollows ==
    main.pc \in {"s236", "s248", "s252"} =>
      main.lastDeviceUpdateTime = main.deviceUpdatedAt

\* C27: while the process runs and a run of waitForDeviceRefresh has written
\* the temporary rate and no restoring call of that run has completed, the
\* run's onSigInt is registered; and it is registered from before the write.
C27_HandlerCoversTempRate ==
    proc = "running" =>
      \A r \in Runs :
        /\ (wfr[r].tempSet /\ wfr[r].restored = 0) => wfr[r].listener
        /\ (main.pc = "w225" /\ main.run = r) => wfr[r].listener

\* C27, its case: the device is at the temporary rate, the restoring call of
\* line 249 is in flight, and the listener is still registered.
C27_Witness ==
    /\ proc = "running"
    /\ \E cb \in callbacks :
         /\ cb.pc = "c249"
         /\ wfr[cb.run].tempSet /\ wfr[cb.run].restored = 0 /\ wfr[cb.run].listener
         /\ wfr[cb.run].initialRefreshRate # TempRefreshRate
         /\ srv.refresh_rate = TempRefreshRate

\* C28: a SIGINT delivered during the recovery ends the process: while the
\* process runs, every onSigInt in progress has an instant at which its
\* updateDevice settles, after which process.exit() is reached.
C28_SigIntEndsProcess ==
    proc = "running" => \A h \in handlers : h.wake # None

\* C29: the onStart of every plugin is invoked once, by the start() that
\* loaded it, and has returned before the plugin is rendered: no onStart is
\* invoked a second time, and while a plugin is rendered start() has gone
\* through every onStart and none is in progress.
C29_OnStartOnceBeforeRender ==
    \A i \in 1..Len(plugins) :
      /\ ~(boot.again = "onStart" /\ boot.againI = i)
      /\ (\E c \in Cycles : cycles[c].pc = "render" /\ cycles[c].idx = i) =>
           /\ boot.pc = "loop"
           /\ i \in {boot.started[k] : k \in 1..Len(boot.started)}

\* A rotation that is an odd multiple of 90 degrees.
oddQuarterTurns(rotation) == \E k \in (0 - 4)..4 : rotation = 90 * (2 * k + 1)

\* C30: once getModel has returned, the device's width and height are the
\* model's height and width when the rotation is an odd multiple of 90
\* degrees and the model's width and height otherwise, and every plugin has
\* been instantiated with the device's width and height.
C30_DimensionsFollowRotation ==
    hist.model # NoModel =>
      /\ device.width = IF oddQuarterTurns(hist.model.rotation)
                        THEN hist.model.height ELSE hist.model.width
      /\ device.height = IF oddQuarterTurns(hist.model.rotation)
                         THEN hist.model.width ELSE hist.model.height
      /\ \A i \in 1..Len(plugins) :
           plugins[i].width = device.width /\ plugins[i].height = device.height

\* C30, its case: a model turned by -90 degrees, and a plugin instantiated
\* with the model's height as its width.
C30_Witness ==
    /\ hist.model.rotation = 0 - 90
    /\ Len(plugins) >= 1
    /\ plugins[1].width = hist.model.height /\ plugins[1].height = hist.model.width
    /\ hist.model.width # hist.model.height

\* C31: the error image holds at most 5 lines of text, and every line it
\* draws lies on the canvas.
C31_ErrorImageFits ==
    (render.pc = "settled" /\ render.outcome.status = "resolved"
       /\ render.outcome.image.kind = "error") =>
      LET texts == render.outcome.image.texts
      IN  /\ Len(texts) <= 5
          /\ \A i \in 1..Len(texts) :
               /\ 0 <= texts[i].y /\ texts[i].y <= render.height
               /\ 0 <= texts[i].x /\ texts[i].x <= render.width

\* An entry of the plugin root that is a directory, is not named example and
\* is not disabled by its config.json.
Kept(e) ==
    e.isDirectory /\ e.name # << "example" >> /\ e.json \notin {"disabled", "disabledNoConfig"}

\* C32: after a discovery that threw nothing, the plugin list holds one
\* plugin per kept entry of the listing, in the order of the listing, and
\* nothing else.
C32_DiscoveryList ==
    boot.ctor = "done" =>
      LET kept == SelectSeq(boot.dirs, Kept)
      IN  [i \in 1..Len(plugins) |-> plugins[i].pluginName]
            = [i \in 1..Len(kept) |-> kept[i].name]

\* C32, its case: a discovery has gone through a skipped entry (example, a
\* file, or a disabled plugin) and then loaded a plugin.
C32_Witness ==
    /\ boot.ctor = "done" /\ Len(boot.dirs) = 2 /\ Len(plugins) = 1
    /\ ~Kept(boot.dirs[1]) /\ boot.dirs[1].json = "disabled" /\ boot.dirs[1].isDirectory
    /\ plugins[1].pluginName = boot.dirs[2].name

\* C33: every step leaves the device record as it is, but for two cases. The
\* device's own refresh stamps updated_at. A request made by
\* waitForDeviceRefresh (lines 225, 249, 207) changes refresh_rate, to the
\* temporary rate or to the rate the run that made it read at its start. No
\* step of the steady-state loop changes the record.
C33_OnlyRefreshRateWritten ==
    [][ /\ srv'.updated_at # srv.updated_at =>
             /\ dev.nextWake <= now /\ srv'.updated_at = now
             /\ srv'.refresh_rate = srv.refresh_rate
        /\ srv'.refresh_rate # srv.refresh_rate =>
             \E w \in Writes(main, callbacks, handlers, wfr) \cup orphans :
               /\ srv'.refresh_rate = w.rate
               /\ w.rate \in {TempRefreshRate, wfr[w.run].initialRefreshRate}
        /\ (main.pc \in {"refreshing", "s272", "l276", "s284", "s289", "l292"}
              /\ main' # main) => srv' = srv
      ]_vars

\* C33, its case: a run has written the temporary rate and then the rate it
\* had read, another than 60 s, and the loop is in its steady state.
C33_Witness ==
    /\ proc = "running" /\ main.pc = "s289"
    /\ \E r \in Runs :
         /\ wfr[r].tempSet /\ wfr[r].restored >= 1
         /\ wfr[r].initialRefreshRate # TempRefreshRate
         /\ srv.refresh_rate = wfr[r].initialRefreshRate

\* Every event of the list is on exactly one line, and no two events of one
\* line overlap: neither for checkOverlap nor by sharing a day.
Packed ==
    /\ \A n \in 1..Len(render.events) :
         Cardinality({p \in {q \in (1..Len(render.lines)) \X (1..Len(render.events)) :
                               q[2] <= Len(render.lines[q[1]])} :
                        render.lines[p[1]][p[2]] = render.events[n]}) = 1
    /\ \A l \in 1..Len(render.lines) :
         \A i, j \in 1..Len(render.lines[l]) :
           i # j =>
             LET a == render.lines[l][i]
                 b == render.lines[l][j]
             IN  /\ ~checkOverlap(<< a.start, a.end >>, << b.start, b.end >>)
                 /\ ~\E t \in Days : /\ a.start <= t /\ t < a.end
                                     /\ b.start <= t /\ t < b.end

\* C34: drawAllDayEvents terminates for every list of events (every turn of
\* its while loop leaves fewer events to place, and the loop is left when
\* none remains), and when it returns every event of the list is on exactly
\* one line and no two events of one line overlap in time.
C34_PackingSeparates ==
    [][ /\ (render.pc = "while" /\ render'.pc = "while") =>
             Len(render'.remainingEvents) < Len(render.remainingEvents)
        /\ (render.pc = "while" /\ Len(render.remainingEvents) = 0) =>
             render'.pc = "returned"
        /\ render'.pc = "returned" =>
             /\ Packed'
             /\ render'.returned = Len(render'.lines) * eventHeight
      ]_vars

\* Three events, the first overlapping both others, were packed into two lines.
C34_Witness ==
    /\ render.pc = "returned"
    /\ Len(render.events) = 3
    /\ Len(render.lines) = 2
    /\ \E a \in 1..3 : \A b \in (1..3) \ {a} :
         checkOverlap(<< render.events[a].start, render.events[a].end >>,
                      << render.events[b].start, render.events[b].end >>)

\* The events of the calendars whose fetch succeeded.
fetchedEvents ==
    UNION {{transformEvent(render.answers[c].items, n, c) :
              n \in 1..Len(render.answers[c].items)} :
             c \in {d \in 1..Len(render.answers) : render.answers[d].ok}}

\* C35: getWeekEvents returns the events of every configured calendar whose
\* fetch succeeded, each once, whatever the other calendars did, and the
\* list it returns is ordered by non-decreasing start time.
C35_MergedAndSorted ==
    render.pc = "returned" =>
      /\ {render.returned[i] : i \in 1..Len(render.returned)} = fetchedEvents
      /\ Len(render.returned) = Cardinality(fetchedEvents)
      /\ \A i \in 1..(Len(render.returned) - 1) :
           render.returned[i].start <= render.returned[i + 1].start

====
